---- MODULE Spec2Model ----
(***************************************************************************)
(* Model of TflCycleHireSDK (src/app.py; src/streamlit.py holds a copy of  *)
(* the same class): the token cache, the three token-strategy engines and  *)
(* the two response parsers they call.                                     *)
(*                                                                         *)
(* Python values are modelled as strings; None is the marker string None.  *)
(* A remote call is a choice of one response of the server; what the code  *)
(* makes of the response is computed as the code computes it.              *)
(***************************************************************************)
EXTENDS Integers, Sequences, FiniteSets, TLC

(* ------------------------------ bounds --------------------------------- *)

\* The clock stops the model after this many microseconds; every remote
\* call takes one of them, so this also bounds the remote calls of a run.
MaxClock == 4

\* The longest chain of one invocation: one remote call per strategy of
\* get_release_code_for_static_location.
\* The longest list of fragments a response under test carries.
MaxFragments == 3

MaxChain == Cardinality({"original", "fresh", "static"})

(* --------------------------- Python values ----------------------------- *)

None == "<None>"

\* Python truthiness of an Optional[str].
Truthy(v) == v # None /\ v # ""

\* d.get(k, default) for a dict modelled as a record.
Get(d, k, default) == IF k \in DOMAIN d THEN d[k] ELSE default

\* s.endswith(suffix)
EndsWith(s, suffix) ==
    /\ Len(s) >= Len(suffix)
    /\ SubSeq(s, Len(s) - Len(suffix) + 1, Len(s)) = suffix

Digits == {"0", "1", "2", "3", "4", "5", "6", "7", "8", "9"}

IsDigitAt(s, i) == i >= 1 /\ i <= Len(s) /\ SubSeq(s, i, i) \in Digits

\* The end of the longest run of digits of s that starts at position i.
RECURSIVE DigitRunEnd(_, _)
DigitRunEnd(s, i) == IF IsDigitAt(s, i + 1) THEN DigitRunEnd(s, i + 1) ELSE i

\* f"{time.time():.6f}" for a clock that counts microseconds.
RECURSIVE ZeroPad(_, _)
ZeroPad(s, width) == IF Len(s) >= width THEN s ELSE ZeroPad("0" \o s, width)

FormatTime(micros) ==
    ToString(micros \div 1000000) \o "." \o ZeroPad(ToString(micros % 1000000), 6)

(* ------------------------- known locations ----------------------------- *)

DEFAULT_LOCATION_DATA ==
    [k \in {"cromer_street", "taviton_street", "warren_street_station"} |->
        CASE k = "cromer_street" ->
               [terminal_name |-> "300205",
                point_name |-> "Cromer Street, Bloomsbury",
                c3_encoding |-> "Kv6OJKA1JWRui1R+UltG2iCZBcb3+EMMfBu5aAhZNEXnA3QTJHKcKBLT+Hd097N5",
                c3_clienttime |-> "1748480905.359684"]
          [] k = "taviton_street" ->
               [terminal_name |-> "001009",
                point_name |-> "Taviton Street, Bloomsbury",
                c3_encoding |-> "hjQd5cl1SN7BOdmflRPMZwu1UnranBQaYc1W+u/ofJSmJa24Ca9fbkVYjg5SZ+Lg",
                c3_clienttime |-> "1748481522.599196"]
          [] k = "warren_street_station" ->
               [terminal_name |-> "001090",
                point_name |-> "Warren Street Station, Euston",
                c3_encoding |-> "Af1F2GlMLbIbykRF6YQQbhJQxCWXYsXyOdUx4M2KxIAvFtrFbaK3CmUhY1dwxDa0",
                c3_clienttime |-> "1748481544.979739"]]

\* The table passed as static_location_data_map: the default entries and
\* one entry that carries no example tokens.
LocationData ==
    ("depot" :> [terminal_name |-> "009999", point_name |-> "Depot, Yard"])
        @@ DEFAULT_LOCATION_DATA

\* The keys callers pass: one with example tokens, one without, and one
\* that is not in the table.
KeyInputs == {"cromer_street", "depot", "hoxton"}

(* --------------------------- exceptions -------------------------------- *)

\* An exception instance: its class and the clock reading when it was
\* raised, which tells two instances of one class apart.
Exc(type, at) == [type |-> type, raised_at |-> at]

\* "no exception" (last_error = None, __cause__ = None).
NoError == [type |-> "None", raised_at |-> -1]

\* What a call yields: a returned value or a raised exception.
Returned(v) == [ok |-> TRUE, value |-> v, error |-> NoError]

Raised(e) == [ok |-> FALSE, value |-> None, error |-> e]

(* ------------------- the confirm-hire remote call ---------------------- *)

\* The start positions at which re.search(r"Release code (\d+)", name)
\* can match.
ReleaseCodeMatches(name) ==
    {i \in 1..Len(name) :
        /\ i + 13 <= Len(name)
        /\ SubSeq(name, i, i + 12) = "Release code "
        /\ IsDigitAt(name, i + 13)}

\* match.group(1) of the leftmost match (greedy \d+), or None.
ReleaseCodeGroup(name) ==
    IF ReleaseCodeMatches(name) = {}
    THEN None
    ELSE LET i == CHOOSE m \in ReleaseCodeMatches(name) :
                      \A n \in ReleaseCodeMatches(name) : m <= n
         IN  SubSeq(name, i + 13, DigitRunEnd(name, i + 13))

\* The first loop over children: the Subtitle of the first child with the
\* exact caption (then break), or None.
CaptionCode(children) ==
    LET hits == {i \in 1..Len(children) :
                    /\ Get(children[i], "Name", None) = "Your cycle hire release code:"
                    /\ "Subtitle" \in DOMAIN children[i]}
    IN  IF hits = {}
        THEN None
        ELSE children[CHOOSE m \in hits : \A n \in hits : m <= n].Subtitle

\* Mutant of UnlockbarCode: the ID of the child is not looked at.
UnlockbarCode_AnyId(children) ==
    LET hits == {i \in 1..Len(children) :
                    /\ "Name" \in DOMAIN children[i]
                    /\ ReleaseCodeGroup(children[i].Name) # None}
    IN  IF hits = {}
        THEN None
        ELSE ReleaseCodeGroup(children[CHOOSE m \in hits : \A n \in hits : m <= n].Name)

\* The second loop over children: the captured digits of the first child
\* whose ID ends with _unlockbar and whose Name matches, or None.
UnlockbarCode(children) ==
    LET hits == {i \in 1..Len(children) :
                    /\ EndsWith(Get(children[i], "ID", ""), "_unlockbar")
                    /\ "Name" \in DOMAIN children[i]
                    /\ ReleaseCodeGroup(children[i].Name) # None}
    IN  IF hits = {}
        THEN None
        ELSE ReleaseCodeGroup(children[CHOOSE m \in hits : \A n \in hits : m <= n].Name)

\* Mutant of ReleaseCodeFound: the unlock bar is looked for first.
ReleaseCodeFound_UnlockbarFirst(children) ==
    IF Truthy(UnlockbarCode(children))
    THEN UnlockbarCode(children)
    ELSE CaptionCode(children)

\* Mutant of ReleaseCodeFound: the second loop runs only when the first
\* found no Subtitle at all ("if release_code_found is None").
ReleaseCodeFound_EmptyStops(children) ==
    IF CaptionCode(children) # None
    THEN CaptionCode(children)
    ELSE UnlockbarCode(children)

\* release_code_found after both loops.
ReleaseCodeFound(children) ==
    IF Truthy(CaptionCode(children))
    THEN CaptionCode(children)
    ELSE UnlockbarCode(children)

\* The responses the server gives to a confirm-hire request: a failed
\* request, an error status, a body that is not JSON (which requests
\* reports with its own exception class or with json's, by version), or a
\* JSON object.
ConfirmResponses ==
    { [kind |-> "request_failed"],
      [kind |-> "http_error"],
      [kind |-> "bad_json_requests"],
      [kind |-> "bad_json_plain"],
      [kind |-> "json", data |->
          [Children |-> << [ID |-> "page_title", Name |-> "Enjoy your ride"],
                           [ID |-> "page_code",
                            Name |-> "Your cycle hire release code:",
                            Subtitle |-> "4821"] >>]],
      [kind |-> "json", data |->
          [Children |-> << [ID |-> "page_unlockbar",
                            Name |-> "Release code 9013 issued"] >>]],
      [kind |-> "json", data |->
          [Children |-> << [ID |-> "page_code",
                            Name |-> "Your cycle hire release code:",
                            Subtitle |-> ""],
                           [ID |-> "page_error",
                            Name |-> "Hire already in progress"] >>]],
      [kind |-> "json", data |-> [Title |-> "Docking station full"]] }

\* Mutant of CodeNotFound: a response without a code is reported like a
\* body that cannot be decoded.
CodeNotFound_AsApiError(at) == Raised(Exc("TflCycleHireAPIError", at))

\* "raise TflCycleHireDataError(f'Could not find release code ...')".
CodeNotFound(at) == Raised(Exc("TflCycleHireDataError", at))

\* _execute_confirm_hire_api_call on the response resp, at clock reading at.
ExecuteConfirmHire(resp, at) ==
    CASE resp.kind = "http_error" -> Raised(Exc("TflCycleHireAPIError", at))
      [] resp.kind = "request_failed" -> Raised(Exc("TflCycleHireSDKError", at))
      [] resp.kind = "bad_json_requests" -> Raised(Exc("TflCycleHireSDKError", at))
      [] resp.kind = "bad_json_plain" -> Raised(Exc("TflCycleHireAPIError", at))
      [] OTHER ->
           LET children == Get(resp.data, "Children", <<>>)
           IN  IF Truthy(ReleaseCodeFound(children))
               THEN Returned(ReleaseCodeFound(children))
               ELSE CodeNotFound(at)

\* The fragments the Children of a confirm-hire body are drawn from: the
\* exact caption with a code, with another code, with an empty Subtitle
\* and with none; a caption that differs by a trailing blank; unlock bars
\* with a matching label, with the match inside the label, with another
\* label and with no label; a matching label on another ID.
ConfirmFragments ==
    { [ID |-> "page_code", Name |-> "Your cycle hire release code:", Subtitle |-> "4821"],
      [ID |-> "page_code_2", Name |-> "Your cycle hire release code:", Subtitle |-> "7310"],
      [ID |-> "page_code", Name |-> "Your cycle hire release code:", Subtitle |-> ""],
      [ID |-> "page_code", Name |-> "Your cycle hire release code:"],
      [ID |-> "page_title", Name |-> "Your cycle hire release code: ", Subtitle |-> "0000"],
      [ID |-> "page_unlockbar", Name |-> "Release code 9013 issued"],
      [ID |-> "hire_unlockbar", Name |-> "Your Release code 22"],
      [ID |-> "page_unlockbar", Name |-> "Slide to unlock"],
      [ID |-> "spacer_unlockbar"],
      [ID |-> "page_info", Name |-> "Release code 5555"] }

\* The lists of at most MaxFragments fragments of a pool.
FragmentLists(pool) == UNION {[1..n -> pool] : n \in 0..MaxFragments}

\* The responses a confirm-hire parse is tested on: the transport
\* failures, a body without Children, and every list of fragments.
ConfirmInputs ==
    {[kind |-> k] : k \in {"request_failed", "http_error",
                           "bad_json_requests", "bad_json_plain"}}
    \cup {[kind |-> "json", data |-> [Title |-> "Docking station full"]]}
    \cup {[kind |-> "json", data |-> [Children |-> c]] :
              c \in FragmentLists(ConfirmFragments)}

(* --------------------- the station-search remote call ------------------ *)

\* a or b, on Optional[str].
Or(a, b) == IF Truthy(a) THEN a ELSE b

\* Mutant of IdMatches: any text may follow lchs_searchresult_.
IdMatches_NoDigit(id) ==
    /\ Len(id) >= 19
    /\ SubSeq(id, 1, 18) = "lchs_searchresult_"

\* re.match(r"^(lchs_searchresult_(\d+))", id): whether it matches, and
\* its groups 1 and 2.
IdMatches(id) ==
    /\ Len(id) >= 19
    /\ SubSeq(id, 1, 18) = "lchs_searchresult_"
    /\ IsDigitAt(id, 19)

\* Mutant of IdGroup1: the whole ID is the key of the group.
IdGroup1_WholeId(id) == id

IdGroup1(id) == SubSeq(id, 1, DigitRunEnd(id, 19))

IdGroup2(id) == SubSeq(id, 19, DigitRunEnd(id, 19))

\* d[k] = v on a dict modelled as a function.
Put(d, k, v) == (k :> v) @@ d

\* The dict {} .
EmptyDict == [k \in {} |-> None]

\* Mutant of LinkEntry: a Terminal tag on the link is taken for the
\* terminal name.
LinkEntry_ReadsTerminal(entry, child) ==
    LET tags == Get(child, "Tags", EmptyDict)
        e1 == Put(entry, "name", Get(child, "Name", None))
        e2 == Put(e1, "subtitle", Get(child, "Subtitle", None))
        e3 == Put(e2, "dock_location", Get(tags, "LCHS.DockLocation", None))
        e4 == IF Truthy(Get(tags, "Terminal", None))
              THEN Put(e3, "terminal_name_from_image_tags", tags["Terminal"])
              ELSE e3
    IN  IF Truthy(Get(tags, "LCHS.StationID", None))
        THEN Put(e4, "station_id_from_link_tags", tags["LCHS.StationID"])
        ELSE e4

\* What the Node.Link branch does to current_station_entry.
LinkEntry(entry, child) ==
    LET tags == Get(child, "Tags", EmptyDict)
        e1 == Put(entry, "name", Get(child, "Name", None))
        e2 == Put(e1, "subtitle", Get(child, "Subtitle", None))
        e3 == Put(e2, "dock_location", Get(tags, "LCHS.DockLocation", None))
    IN  IF Truthy(Get(tags, "LCHS.StationID", None))
        THEN Put(e3, "station_id_from_link_tags", tags["LCHS.StationID"])
        ELSE e3

\* Mutant of ImageEntry: the caption of the image is taken for the name.
ImageEntry_WritesName(entry, child) ==
    LET tags == Get(child, "Tags", EmptyDict)
        e0 == Put(entry, "name", Get(child, "Name", None))
        e1 == Put(e0, "terminal_name_from_image_tags", Get(tags, "Terminal", None))
        e2 == Put(e1, "point_name_from_image_tags", Get(tags, "PointName", None))
    IN  IF Truthy(Get(tags, "StationID", None))
        THEN Put(e2, "station_id_from_image_tags", tags["StationID"])
        ELSE e2

\* What the "Hire now" Node.Media.Image branch does to it.
ImageEntry(entry, child) ==
    LET tags == Get(child, "Tags", EmptyDict)
        e1 == Put(entry, "terminal_name_from_image_tags", Get(tags, "Terminal", None))
        e2 == Put(e1, "point_name_from_image_tags", Get(tags, "PointName", None))
    IN  IF Truthy(Get(tags, "StationID", None))
        THEN Put(e2, "station_id_from_image_tags", tags["StationID"])
        ELSE e2

\* Mutant of KeysWith: a key moves to the end whenever a fragment of its
\* group is seen.
KeysWith_LastSeen(agg, prefix) ==
    Append(SelectSeq(agg.keys, LAMBDA k : k # prefix), prefix)

\* "if station_id_prefix not in station_data_aggregator: ...[prefix] = {}":
\* the keys of the dict in insertion order.
KeysWith(agg, prefix) ==
    IF prefix \in DOMAIN agg.entries THEN agg.keys ELSE Append(agg.keys, prefix)

\* One pass of the first loop: agg is station_data_aggregator as the list
\* of its keys in insertion order and the entries by key.
AggregateChild(agg, child) ==
    LET id == Get(child, "ID", "")
    IN  IF ~IdMatches(id)
        THEN agg
        ELSE
          LET prefix == IdGroup1(id)
              known == prefix \in DOMAIN agg.entries
              entry == IF known
                       THEN agg.entries[prefix]
                       ELSE ("raw_station_id_from_id" :> IdGroup2(id))
              entry2 ==
                  IF Get(child, "Type", None) = "Node.Link"
                  THEN LinkEntry(entry, child)
                  ELSE IF /\ Get(child, "Type", None) = "Node.Media.Image"
                          /\ Get(child, "Name", None) = "Hire now"
                       THEN ImageEntry(entry, child)
                       ELSE entry
          IN  [keys |-> KeysWith(agg, prefix),
               entries |-> Put(agg.entries, prefix, entry2)]

\* station_data_aggregator after the first i children.
RECURSIVE AggregateChildren(_, _)
AggregateChildren(children, i) ==
    IF i = 0
    THEN [keys |-> <<>>, entries |-> EmptyDict]
    ELSE AggregateChild(AggregateChildren(children, i - 1), children[i])

\* Mutant of ResolvedStationId: the tag of the link goes before the tag of
\* the image.
ResolvedStationId_LinkFirst(collected_details) ==
    Or(Get(collected_details, "station_id_from_link_tags", None),
       Or(Get(collected_details, "station_id_from_image_tags", None),
          Get(collected_details, "raw_station_id_from_id", None)))

\* Mutant of ResolvedStationId: the number in the ID is no fallback.
ResolvedStationId_TagsOnly(collected_details) ==
    Or(Get(collected_details, "station_id_from_image_tags", None),
       Get(collected_details, "station_id_from_link_tags", None))

\* The fields the second loop resolves from one entry.
ResolvedStationId(collected_details) ==
    Or(Get(collected_details, "station_id_from_image_tags", None),
       Or(Get(collected_details, "station_id_from_link_tags", None),
          Get(collected_details, "raw_station_id_from_id", None)))

\* Mutant of ResolvedPointName: the name goes before the tag of the image.
ResolvedPointName_NameFirst(collected_details) ==
    Or(Get(collected_details, "name", None),
       Get(collected_details, "point_name_from_image_tags", None))

\* "point_name = collected_details.get('point_name_from_image_tags') or name".
ResolvedPointName(collected_details) ==
    Or(Get(collected_details, "point_name_from_image_tags", None),
       Get(collected_details, "name", None))

\* Mutant of IsEmitted: the name is not asked for.
IsEmitted_IgnoresName(collected_details) ==
    Truthy(ResolvedStationId(collected_details))

\* Mutant of IsEmitted: a record needs a terminal name too.
IsEmitted_NeedsTerminal(collected_details) ==
    /\ Truthy(ResolvedStationId(collected_details))
    /\ Truthy(Get(collected_details, "name", None))
    /\ Truthy(ResolvedPointName(collected_details))
    /\ Truthy(Get(collected_details, "terminal_name_from_image_tags", None))

\* "if station_id and name and point_name".
IsEmitted(collected_details) ==
    /\ Truthy(ResolvedStationId(collected_details))
    /\ Truthy(Get(collected_details, "name", None))
    /\ Truthy(ResolvedPointName(collected_details))

StationRecord(collected_details) ==
    [station_id |-> ResolvedStationId(collected_details),
     name |-> Get(collected_details, "name", None),
     subtitle |-> Get(collected_details, "subtitle", "N/A"),
     terminal_name |-> Get(collected_details, "terminal_name_from_image_tags", None),
     point_name |-> ResolvedPointName(collected_details),
     dock_location |-> Get(collected_details, "dock_location", None)]

\* results after the second loop has gone through the first i keys.
RECURSIVE ResolveEntries(_, _)
\* Mutant of ResolveEntries: a group that is not emitted takes the records
\* before it with it.
ResolveEntries_DropsEarlier(agg, i) ==
    IF i = 0
    THEN <<>>
    ELSE IF IsEmitted(agg.entries[agg.keys[i]])
         THEN Append(ResolveEntries(agg, i - 1), StationRecord(agg.entries[agg.keys[i]]))
         ELSE <<>>

ResolveEntries(agg, i) ==
    IF i = 0
    THEN <<>>
    ELSE IF IsEmitted(agg.entries[agg.keys[i]])
         THEN Append(ResolveEntries(agg, i - 1), StationRecord(agg.entries[agg.keys[i]]))
         ELSE ResolveEntries(agg, i - 1)

\* The parsing part of _execute_search_api_call.
ParseSearchResults(children) ==
    LET agg == AggregateChildren(children, Len(children))
    IN  ResolveEntries(agg, Len(agg.keys))

LinkKingsCross ==
    [Type |-> "Node.Link", ID |-> "lchs_searchresult_7_a", Name |-> "King's Cross",
     Subtitle |-> "12 bikes",
     Tags |-> ("LCHS.DockLocation" :> "51.5308,-0.1238")]

ImageKingsCross ==
    [Type |-> "Node.Media.Image", ID |-> "lchs_searchresult_7_b", Name |-> "Hire now",
     Tags |-> ("Terminal" :> "300100") @@ ("PointName" :> "King's Cross, Station Rd")
              @@ ("StationID" :> "14")]

LinkEuston ==
    [Type |-> "Node.Link", ID |-> "lchs_searchresult_9", Name |-> "Euston Rd",
     Tags |-> ("LCHS.StationID" :> "9001")]

ImageNameless ==
    [Type |-> "Node.Media.Image", ID |-> "lchs_searchresult_12_b", Name |-> "Hire now",
     Tags |-> ("Terminal" :> "300777")]

LinkKingsCrossLater ==
    [Type |-> "Node.Link", ID |-> "lchs_searchresult_7_c", Name |-> "King's Cross St Pancras",
     Subtitle |-> "3 bikes",
     Tags |-> ("LCHS.StationID" :> "7002") @@ ("Terminal" :> "300199")]

ImageKingsCrossLater ==
    [Type |-> "Node.Media.Image", ID |-> "lchs_searchresult_7_d", Name |-> "Hire now",
     Tags |-> ("Terminal" :> "300101")]

LinkNearby ==
    [Type |-> "Node.Link", ID |-> "lchs_searchresult_x1", Name |-> "Nearby"]

ImageEuston ==
    [Type |-> "Node.Media.Image", ID |-> "lchs_searchresult_9_b", Name |-> "Hire now",
     Tags |-> ("Terminal" :> "300900")]

ImageMap ==
    [Type |-> "Node.Media.Image", ID |-> "lchs_searchresult_7_m", Name |-> "Map",
     Tags |-> ("Terminal" :> "999999") @@ ("StationID" :> "99")]

LinkUnnamed ==
    [Type |-> "Node.Link", ID |-> "lchs_searchresult_12", Name |-> "",
     Subtitle |-> "0 bikes"]

SearchHeader ==
    [Type |-> "Node.Text", ID |-> "lchs_search_header", Name |-> "Results"]

\* The fragments the Children of a search body are drawn from.
SearchFragments ==
    { LinkKingsCross, ImageKingsCross, LinkKingsCrossLater, ImageMap,
      LinkEuston, ImageEuston, ImageNameless, LinkUnnamed, SearchHeader,
      ImageKingsCrossLater, LinkNearby }

\* The responses a search parse is tested on.
SearchInputs ==
    {[kind |-> k] : k \in {"request_failed", "http_error",
                           "bad_json_requests", "bad_json_plain"}}
    \cup {[kind |-> "json", data |-> [Title |-> "Search"]]}
    \cup {[kind |-> "json", data |-> [Children |-> c]] :
              c \in FragmentLists(SearchFragments)}

\* The responses the server gives to a search request.
SearchResponses ==
    { [kind |-> "request_failed"],
      [kind |-> "http_error"],
      [kind |-> "bad_json_requests"],
      [kind |-> "bad_json_plain"],
      [kind |-> "json", data |->
          [Children |-> << [Type |-> "Node.Text", ID |-> "lchs_search_header",
                            Name |-> "Results"],
                           LinkKingsCross, ImageNameless, LinkEuston,
                           ImageKingsCross >>]],
      [kind |-> "json", data |->
          [Children |-> << [Type |-> "Node.Text", ID |-> "lchs_search_header",
                            Name |-> "No results"] >>]],
      [kind |-> "json", data |-> [Title |-> "Search"]] }

\* _execute_search_api_call on the response resp, at clock reading at.
ExecuteSearch(resp, at) ==
    CASE resp.kind = "http_error" -> Raised(Exc("TflCycleHireAPIError", at))
      [] resp.kind \in {"request_failed", "bad_json_requests", "bad_json_plain"} ->
           Raised(Exc("TflCycleHireSDKError", at))
      [] OTHER -> Returned(ParseSearchResults(Get(resp.data, "Children", <<>>)))

(* ------------------------- the two remote calls ------------------------ *)

\* The responses to, and the outcome of, the remote call of one kind:
\* "confirm_hire" is _execute_confirm_hire_api_call, "search" is
\* _execute_search_api_call.
RemoteResponses(kind) ==
    IF kind = "confirm_hire" THEN ConfirmResponses ELSE SearchResponses

ExecuteRemote(kind, resp, at) ==
    IF kind = "confirm_hire"
    THEN ExecuteConfirmHire(resp, at)
    ELSE ExecuteSearch(resp, at)

(* ------------------------------ state ---------------------------------- *)

VARIABLES
    static_location_data,           \* self.static_location_data
    active_c3_encoding,             \* self._active_c3_encoding
    active_original_c3_clienttime,  \* self._active_original_c3_clienttime
    active_token_source_info,       \* self._active_token_source_info
    clock,          \* time.time(), in microseconds
    op,             \* the public method that was called last
    pc,             \* the position of the running invocation, or "idle"
    args,           \* the arguments of the invocation
    last_error,     \* the local last_error of the invocation
    attempts,       \* the remote calls the invocation has made, in order
    result,         \* how the invocation ended
    entry_cache,    \* active_token_info when the invocation started
    response,       \* the response a remote call is run on, on its own
    outcome,        \* what the remote call made of that response
    scanned,        \* the number of children the first loop has been through
    station_data_aggregator,   \* the local station_data_aggregator
    favorites,      \* st.session_state.favorites
    favorites_file, \* the content of FAVORITES_FILE
    selected_station_info_for_code,  \* st.session_state...: <<>> is None
    release_code,   \* st.session_state.release_code
    error_message,  \* st.session_state.error_message
    called          \* the favorites helper that was called last

cache_vars ==
    <<active_c3_encoding, active_original_c3_clienttime, active_token_source_info>>

vars ==
    <<static_location_data, active_c3_encoding, active_original_c3_clienttime,
      active_token_source_info, clock, op, pc, args, last_error, attempts,
      result, entry_cache, response, outcome, scanned,
      station_data_aggregator, favorites, favorites_file,
      selected_station_info_for_code, release_code, error_message, called>>

\* The variables of a remote call run on its own.
call_vars == <<response, outcome, scanned, station_data_aggregator>>

\* The session state of the app around the SDK, and its favorites file.
app_vars ==
    <<favorites, favorites_file, selected_station_info_for_code,
      release_code, error_message, called>>

\* The property active_token_info.
active_token_info ==
    [c3_encoding |-> active_c3_encoding,
     original_c3_clienttime |-> active_original_c3_clienttime,
     source |-> active_token_source_info]

EmptyCache ==
    [c3_encoding |-> None, original_c3_clienttime |-> None, source |-> None]

\* How an invocation ended: nothing yet, a returned value, or a raised
\* exception of class exc_type with __cause__ cause.
NoResult == [status |-> "none", value |-> None, exc_type |-> "None", cause |-> NoError]

ReturnValue(v) ==
    [status |-> "returned", value |-> v, exc_type |-> "None", cause |-> NoError]

RaiseFrom(type, cause) ==
    [status |-> "raised", value |-> None, exc_type |-> type, cause |-> cause]

(* ------------------------------ inputs --------------------------------- *)

\* A SearchedStationInfo that can be hired and one that cannot.
StationInputs ==
    { [station_id |-> "7", name |-> "King's Cross", subtitle |-> "12 bikes",
       terminal_name |-> "300100", point_name |-> "King's Cross, Station Rd",
       dock_location |-> None],
      [station_id |-> "9", name |-> "Euston Rd", subtitle |-> "N/A",
       terminal_name |-> None, point_name |-> "Euston Rd",
       dock_location |-> None] }

NoStation ==
    [station_id |-> "", name |-> "", subtitle |-> "", terminal_name |-> None,
     point_name |-> "", dock_location |-> None]

\* (c3_encoding_override, c3_clienttime_override): none, one of the two,
\* an empty one, both.
OverrideInputs ==
    { <<None, None>>, <<"OvrEnc+1==", None>>, <<"", "1748490000.123456">>,
      <<"OvrEnc+1==", "1748490000.123456">> }

SearchTextInputs == {"euston"}

\* (c3_encoding, original_c3_clienttime) as callers of set_active_tokens
\* and get_release_code_with_explicit_tokens pass them.
UserTokenInputs ==
    { <<"UserEnc/2==", "1748400000.000001">>, <<"UserEnc/2==", "">>,
      <<"", "1748400000.000001">> }

\* The arguments of an invocation; a method leaves at its default what it
\* does not take.
DefaultArgs ==
    [location_key |-> None,
     try_active_original_time |-> TRUE,
     try_active_fresh_time |-> TRUE,
     try_static_location_tokens |-> TRUE,
     c3_encoding_override |-> None,
     c3_clienttime_override |-> None,
     prime_from_static_if_no_active |-> None,
     search_text |-> None,
     station_info |-> NoStation,
     terminal_name |-> None,
     point_name |-> None,
     c3_encoding |-> None,
     c3_clienttime |-> None,
     update_active_tokens_on_success |-> TRUE]

\* No remote call is run on its own.
NoResponse == [kind |-> "none"]

NoOutcome == [ok |-> FALSE, value |-> None, error |-> NoError]

\* "station_data_aggregator: Dict[str, Dict[str, Any]] = {}".
EmptyAggregator == [keys |-> <<>>, entries |-> EmptyDict]

(* ------------------------------ Init ----------------------------------- *)

\* FAVORITES_FILE does not exist.
NoFile == [exists |-> FALSE, content |-> <<>>]

\* No favorites helper was called yet.
NoCall == [name |-> "none", station_id |-> None]

\* "if 'favorites' not in st.session_state" and its neighbours, run with no
\* favorites file: the session state of a new session.
AppStarted ==
    /\ favorites = <<>>
    /\ favorites_file = NoFile
    /\ selected_station_info_for_code = <<>>
    /\ release_code = None
    /\ error_message = None
    /\ called = NoCall

Init ==
    /\ static_location_data = LocationData
    /\ active_c3_encoding = None
    /\ active_original_c3_clienttime = None
    /\ active_token_source_info = None
    /\ clock = 0
    /\ op = "none"
    /\ pc = "idle"
    /\ args = DefaultArgs
    /\ last_error = NoError
    /\ attempts = <<>>
    /\ result = NoResult
    /\ entry_cache = EmptyCache
    /\ response = NoResponse
    /\ outcome = NoOutcome
    /\ scanned = 0
    /\ station_data_aggregator = EmptyAggregator
    /\ AppStarted

(* --------------------------- the token cache --------------------------- *)

\* Mutant of SetActive: the source label is not stored.
SetActive_NoLabel(c3_encoding, original_c3_clienttime, source_info) ==
    /\ active_c3_encoding' = c3_encoding
    /\ active_original_c3_clienttime' = original_c3_clienttime
    /\ UNCHANGED active_token_source_info

\* The body of set_active_tokens.
SetActive(c3_encoding, original_c3_clienttime, source_info) ==
    /\ active_c3_encoding' = c3_encoding
    /\ active_original_c3_clienttime' = original_c3_clienttime
    /\ active_token_source_info' = source_info

\* The body of prime_tokens_from_static_location; its return value is
\* PrimeReturns(location_key).
PrimeReturns(location_key) ==
    /\ location_key \in DOMAIN static_location_data
    /\ "c3_encoding" \in DOMAIN static_location_data[location_key]
    /\ "c3_clienttime" \in DOMAIN static_location_data[location_key]

\* Mutant of Prime: a priming that fails clears the cache.
Prime_ClearsOnFailure(location_key) ==
    IF PrimeReturns(location_key)
    THEN SetActive(static_location_data[location_key].c3_encoding,
                   static_location_data[location_key].c3_clienttime,
                   "static_example_for_" \o location_key)
    ELSE SetActive(None, None, None)

Prime(location_key) ==
    IF PrimeReturns(location_key)
    THEN SetActive(static_location_data[location_key].c3_encoding,
                   static_location_data[location_key].c3_clienttime,
                   "static_example_for_" \o location_key)
    ELSE UNCHANGED cache_vars

\* A public method that makes no remote call is called: the locals and
\* the outcome of the invocation before it are gone.
NoInvocation(method) ==
    /\ op' = method
    /\ args' = DefaultArgs
    /\ last_error' = NoError
    /\ attempts' = <<>>
    /\ result' = NoResult
    /\ entry_cache' = active_token_info
    /\ UNCHANGED <<static_location_data, clock, pc, call_vars, app_vars>>

\* The method returns whether it primed the cache.
prime_tokens_from_static_location(location_key) ==
    /\ pc = "idle"
    /\ Prime(location_key)
    /\ op' = "prime"
    /\ args' = [DefaultArgs EXCEPT !.location_key = location_key]
    /\ last_error' = NoError
    /\ attempts' = <<>>
    /\ result' = ReturnValue(PrimeReturns(location_key))
    /\ entry_cache' = active_token_info
    /\ UNCHANGED <<static_location_data, clock, pc, call_vars, app_vars>>

set_active_tokens(c3_encoding, original_c3_clienttime, source_info) ==
    /\ pc = "idle"
    /\ SetActive(c3_encoding, original_c3_clienttime, source_info)
    /\ NoInvocation("set")

\* Mutant of clear_active_tokens: the label of the tokens is left behind.
clear_active_tokens_KeepsLabel ==
    /\ pc = "idle"
    /\ SetActive(None, None, active_token_source_info)
    /\ NoInvocation("clear")

clear_active_tokens ==
    /\ pc = "idle"
    /\ SetActive(None, None, None)
    /\ NoInvocation("clear")

(* ------------------------ the strategy engines ------------------------- *)

\* A public method that makes remote calls is entered: its locals are
\* fresh.  The clock leaves room for the longest chain.
Enter(method, a) ==
    /\ pc = "idle"
    /\ clock + MaxChain <= MaxClock
    /\ op' = method
    /\ args' = a
    /\ last_error' = NoError
    /\ attempts' = <<>>
    /\ entry_cache' = active_token_info
    /\ UNCHANGED <<static_location_data, clock, call_vars, app_vars>>

\* What a step of a running invocation leaves alone.
Running(method, at) ==
    /\ op = method
    /\ pc = at
    /\ UNCHANGED <<static_location_data, op, args, entry_cache, call_vars, app_vars>>

\* One remote call with the tokens (c3_encoding, c3_clienttime), which
\* yielded out.  The call takes time.
Attempt(strategy, c3_encoding, c3_clienttime, out) ==
    /\ attempts' = Append(attempts,
                          [strategy |-> strategy,
                           c3_encoding |-> c3_encoding,
                           c3_clienttime |-> c3_clienttime,
                           ok |-> out.ok,
                           value |-> out.value,
                           error |-> out.error])
    /\ clock' = clock + 1

\* A strategy whose condition is false: on to the next one.
Skip(next) ==
    /\ pc' = next
    /\ UNCHANGED <<cache_vars, clock, last_error, attempts, result>>

\* Mutant of ReturnNow: the return statement is missing, the chain runs on
\* to its end.
ReturnNow_FallsToEnd(out) ==
    /\ result' = ReturnValue(out.value)
    /\ pc' = "final"
    /\ UNCHANGED last_error

\* Mutant of ReturnNow: only a non-empty value is returned ("if results:
\* return results"), an empty one lets the chain run on to its end.
ReturnNow_OnlyNonEmpty(out) ==
    IF Len(out.value) = 0
    THEN /\ pc' = "final"
         /\ UNCHANGED <<result, last_error>>
    ELSE /\ result' = ReturnValue(out.value)
         /\ pc' = "idle"
         /\ UNCHANGED last_error

\* "return code" / "return results" inside a try.
ReturnNow(out) ==
    /\ result' = ReturnValue(out.value)
    /\ pc' = "idle"
    /\ UNCHANGED last_error

\* Mutant of FallThrough: only the first error is kept.
FallThrough_KeepsFirst(out, next) ==
    /\ last_error' = IF last_error = NoError THEN out.error ELSE last_error
    /\ pc' = next
    /\ UNCHANGED <<cache_vars, result>>

\* Mutant of FallThrough: a data error ends the chain, only a transport
\* failure moves on.
FallThrough_DataErrorAborts(out, next) ==
    IF out.error.type = "TflCycleHireDataError"
    THEN /\ result' = RaiseFrom("TflCycleHireSDKError", out.error)
         /\ pc' = "idle"
         /\ UNCHANGED <<cache_vars, last_error>>
    ELSE /\ last_error' = out.error
         /\ pc' = next
         /\ UNCHANGED <<cache_vars, result>>

\* Mutant of FallThrough: the strategy that failed is tried again.
FallThrough_TriesAgain(out, next) ==
    /\ last_error' = out.error
    /\ pc' = pc
    /\ UNCHANGED <<cache_vars, result>>

\* "except Exception as e: last_error = e", then on to the next strategy.
FallThrough(out, next) ==
    /\ last_error' = out.error
    /\ pc' = next
    /\ UNCHANGED <<cache_vars, result>>

\* Mutant of OverrideEnabled: one half of the pair is enough.
OverrideEnabled_EitherHalf ==
    Truthy(args.c3_encoding_override) \/ Truthy(args.c3_clienttime_override)

\* The conditions of the four strategies.
OverrideEnabled ==
    Truthy(args.c3_encoding_override) /\ Truthy(args.c3_clienttime_override)

OriginalTimeEnabled ==
    /\ args.try_active_original_time
    /\ Truthy(active_c3_encoding)
    /\ Truthy(active_original_c3_clienttime)

\* Mutant of FreshTimeEnabled: the flag is not consulted.
FreshTimeEnabled_IgnoresFlag == Truthy(active_c3_encoding)

FreshTimeEnabled ==
    args.try_active_fresh_time /\ Truthy(active_c3_encoding)

StaticTokensEnabled ==
    /\ args.try_static_location_tokens
    /\ "c3_encoding" \in DOMAIN static_location_data[args.location_key]
    /\ "c3_clienttime" \in DOMAIN static_location_data[args.location_key]

\* What each strategy does to the cache when its call succeeds.
\* Mutant of OverrideSuccessCache: an existing cache is kept.
OverrideSuccessCache_KeepsExisting(source_info) ==
    IF Truthy(active_c3_encoding)
    THEN UNCHANGED cache_vars
    ELSE SetActive(args.c3_encoding_override, args.c3_clienttime_override, source_info)

OverrideSuccessCache(source_info) ==
    SetActive(args.c3_encoding_override, args.c3_clienttime_override, source_info)

\* Mutant of OriginalTimeSuccessCache: the cache is relabelled.
OriginalTimeSuccessCache_Relabels ==
    SetActive(active_c3_encoding, active_original_c3_clienttime,
              "active_original_time")

OriginalTimeSuccessCache == UNCHANGED cache_vars

\* Mutant of FreshTimeSuccessCache: the time is read again after the call.
FreshTimeSuccessCache_ReadsClockAgain(fresh_client_time, source_info) ==
    SetActive(active_c3_encoding, FormatTime(clock + 1), source_info)

FreshTimeSuccessCache(fresh_client_time, source_info) ==
    SetActive(active_c3_encoding, fresh_client_time, source_info)

\* Mutant of StaticTokensSuccessCache: the cache is not updated.
StaticTokensSuccessCache_Forgets == UNCHANGED cache_vars

StaticTokensSuccessCache ==
    SetActive(static_location_data[args.location_key].c3_encoding,
              static_location_data[args.location_key].c3_clienttime,
              "static_example_for_" \o args.location_key)

\* Mutant of OverrideFailure: the error is recorded and the chain goes on.
OverrideFailure_FallsThrough(out, next) ==
    /\ last_error' = out.error
    /\ pc' = next
    /\ UNCHANGED <<cache_vars, result>>

\* The except clause of the override strategy: raise, no other strategy.
OverrideFailure(out, next) ==
    /\ result' = RaiseFrom("TflCycleHireSDKError", out.error)
    /\ pc' = "idle"
    /\ UNCHANGED <<cache_vars, last_error>>

\* "Strategy 0": the explicit override pair.
OverrideStrategy(kind, source_info, next) ==
    IF OverrideEnabled
    THEN \E resp \in RemoteResponses(kind) :
           LET out == ExecuteRemote(kind, resp, clock)
           IN  /\ Attempt("override", args.c3_encoding_override,
                          args.c3_clienttime_override, out)
               /\ IF out.ok
                  THEN OverrideSuccessCache(source_info) /\ ReturnNow(out)
                  ELSE OverrideFailure(out, next)
    ELSE Skip(next)

\* "Strategy 1": the active tokens with their original client time.
OriginalTimeStrategy(kind, next) ==
    IF OriginalTimeEnabled
    THEN \E resp \in RemoteResponses(kind) :
           LET out == ExecuteRemote(kind, resp, clock)
           IN  /\ Attempt("original", active_c3_encoding,
                          active_original_c3_clienttime, out)
               /\ IF out.ok
                  THEN OriginalTimeSuccessCache /\ ReturnNow(out)
                  ELSE FallThrough(out, next)
    ELSE Skip(next)

\* "Strategy 2": the active encoding with a fresh client time.
FreshTimeStrategy(kind, source_info, next) ==
    IF FreshTimeEnabled
    THEN LET fresh_client_time == FormatTime(clock)
         IN  \E resp \in RemoteResponses(kind) :
               LET out == ExecuteRemote(kind, resp, clock)
               IN  /\ Attempt("fresh", active_c3_encoding, fresh_client_time, out)
                   /\ IF out.ok
                      THEN /\ FreshTimeSuccessCache(fresh_client_time, source_info)
                           /\ ReturnNow(out)
                      ELSE FallThrough(out, next)
    ELSE Skip(next)

\* "Strategy 3": the example tokens of the target location.
StaticTokensStrategy(kind, next) ==
    IF StaticTokensEnabled
    THEN \E resp \in RemoteResponses(kind) :
           LET out == ExecuteRemote(kind, resp, clock)
           IN  /\ Attempt("static",
                          static_location_data[args.location_key].c3_encoding,
                          static_location_data[args.location_key].c3_clienttime,
                          out)
               /\ IF out.ok
                  THEN StaticTokensSuccessCache /\ ReturnNow(out)
                  ELSE FallThrough(out, next)
    ELSE Skip(next)

\* Mutant of FinalRaise: last_error is not tested.
FinalRaise_AlwaysExhausted ==
    /\ result' = RaiseFrom("TflCycleHireSDKError", last_error)
    /\ pc' = "idle"
    /\ UNCHANGED <<cache_vars, clock, last_error, attempts>>

\* Mutant of FinalRaise: a chain that returned nothing drops the tokens it
\* tried.
FinalRaise_ClearsCache ==
    /\ result' = IF last_error # NoError
                 THEN RaiseFrom("TflCycleHireSDKError", last_error)
                 ELSE RaiseFrom("TflCycleHireConfigError", NoError)
    /\ pc' = "idle"
    /\ SetActive(None, None, None)
    /\ UNCHANGED <<clock, last_error, attempts>>

\* The end of a chain that returned nothing.
FinalRaise ==
    /\ result' = IF last_error # NoError
                 THEN RaiseFrom("TflCycleHireSDKError", last_error)
                 ELSE RaiseFrom("TflCycleHireConfigError", NoError)
    /\ pc' = "idle"
    /\ UNCHANGED <<cache_vars, clock, last_error, attempts>>

(* ---------------- get_release_code_with_explicit_tokens ---------------- *)

get_release_code_with_explicit_tokens(station, c3_encoding, c3_clienttime, update) ==
    /\ Enter("explicit",
             [DefaultArgs EXCEPT !.terminal_name = station.terminal_name,
                                 !.point_name = station.point_name,
                                 !.c3_encoding = c3_encoding,
                                 !.c3_clienttime = c3_clienttime,
                                 !.update_active_tokens_on_success = update])
    /\ pc' = "call"
    /\ result' = NoResult
    /\ UNCHANGED cache_vars

\* Mutant of ExplicitSuccessCache: an existing cache is kept.
ExplicitSuccessCache_KeepsExisting ==
    IF args.update_active_tokens_on_success /\ ~Truthy(active_c3_encoding)
    THEN SetActive(args.c3_encoding, args.c3_clienttime,
                   "explicit_call_for_" \o args.point_name)
    ELSE UNCHANGED cache_vars

\* What the method does to the cache when its call succeeds.
ExplicitSuccessCache ==
    IF args.update_active_tokens_on_success
    THEN SetActive(args.c3_encoding, args.c3_clienttime,
                   "explicit_call_for_" \o args.point_name)
    ELSE UNCHANGED cache_vars

\* The one remote call of the method; its exception is not caught.
ExplicitCall ==
    /\ Running("explicit", "call")
    /\ \E resp \in ConfirmResponses :
         LET out == ExecuteConfirmHire(resp, clock)
         IN  /\ Attempt("explicit", args.c3_encoding, args.c3_clienttime, out)
             /\ IF out.ok
                THEN ExplicitSuccessCache /\ ReturnNow(out)
                ELSE /\ result' = RaiseFrom(out.error.type, NoError)
                     /\ pc' = "idle"
                     /\ UNCHANGED <<cache_vars, last_error>>

(* ---------------- get_release_code_for_static_location ----------------- *)

get_release_code_for_static_location(location_key, original, fresh, static) ==
    /\ Enter("static",
             [DefaultArgs EXCEPT !.location_key = location_key,
                                 !.try_active_original_time = original,
                                 !.try_active_fresh_time = fresh,
                                 !.try_static_location_tokens = static])
    /\ IF location_key \notin DOMAIN static_location_data
       THEN /\ result' = RaiseFrom("TflCycleHireConfigError", NoError)
            /\ pc' = "idle"
       ELSE /\ result' = NoResult
            /\ pc' = "original"
    /\ UNCHANGED cache_vars

StaticOriginalTime ==
    /\ Running("static", "original")
    /\ OriginalTimeStrategy("confirm_hire", "fresh")

StaticFreshTime ==
    /\ Running("static", "fresh")
    /\ FreshTimeStrategy("confirm_hire",
                         "active_encoding_fresh_time_for_static_" \o args.location_key,
                         "static")

StaticLocationTokens ==
    /\ Running("static", "static")
    /\ StaticTokensStrategy("confirm_hire", "final")

StaticFinal ==
    /\ Running("static", "final")
    /\ FinalRaise

(* --------------------------- search_stations --------------------------- *)

search_stations(search_text, c3_encoding_override, c3_clienttime_override, original, fresh, prime) ==
    /\ Enter("search",
             [DefaultArgs EXCEPT !.search_text = search_text,
                                 !.c3_encoding_override = c3_encoding_override,
                                 !.c3_clienttime_override = c3_clienttime_override,
                                 !.try_active_original_time = original,
                                 !.try_active_fresh_time = fresh,
                                 !.prime_from_static_if_no_active = prime])
    /\ pc' = "override"
    /\ result' = NoResult
    /\ UNCHANGED cache_vars

SearchOverride ==
    /\ Running("search", "override")
    /\ OverrideStrategy("search",
                        "explicit_override_for_search_" \o args.search_text,
                        "prime")

\* Mutant of PrimeWanted: an active encoding does not stop the priming.
PrimeWanted_IgnoresCache == Truthy(args.prime_from_static_if_no_active)

\* "if prime_from_static_if_no_active and not self._active_c3_encoding".
PrimeWanted ==
    /\ Truthy(args.prime_from_static_if_no_active)
    /\ ~Truthy(active_c3_encoding)

\* Mutant of PrimeAttempted: a priming that fails counts as the last
\* error of the chain.
PrimeAttempted_RecordsFailure ==
    /\ last_error' = IF PrimeWanted /\ ~PrimeReturns(args.prime_from_static_if_no_active)
                     THEN Exc("TflCycleHireConfigError", clock)
                     ELSE last_error
    /\ pc' = "original"
    /\ UNCHANGED <<clock, attempts, result>>

\* "if not self.prime_tokens_from_static_location(...): logger.warning":
\* whatever the priming returned, the chain goes on with the cache
\* strategies.
PrimeAttempted ==
    /\ pc' = "original"
    /\ UNCHANGED <<clock, last_error, attempts, result>>

\* Priming before the cache strategies, when asked for and nothing is
\* active.
SearchPrime ==
    /\ Running("search", "prime")
    /\ IF PrimeWanted
       THEN Prime(args.prime_from_static_if_no_active)
       ELSE UNCHANGED cache_vars
    /\ PrimeAttempted

SearchOriginalTime ==
    /\ Running("search", "original")
    /\ OriginalTimeStrategy("search", "fresh")

SearchFreshTime ==
    /\ Running("search", "fresh")
    /\ FreshTimeStrategy("search",
                         "active_encoding_fresh_time_for_search_" \o args.search_text,
                         "final")

SearchFinal ==
    /\ Running("search", "final")
    /\ FinalRaise

(* ---------------- get_release_code_for_searched_station ---------------- *)

\* Mutant of TerminalNameGiven: the record is not validated.
TerminalNameGiven_NotChecked(station_info) == TRUE

\* "terminal_name = station_info.get('terminal_name')", tested with
\* "if not terminal_name".
TerminalNameGiven(station_info) == Truthy(station_info.terminal_name)

get_release_code_for_searched_station(station_info, c3_encoding_override, c3_clienttime_override, original, fresh) ==
    /\ Enter("searched",
             [DefaultArgs EXCEPT !.station_info = station_info,
                                 !.c3_encoding_override = c3_encoding_override,
                                 !.c3_clienttime_override = c3_clienttime_override,
                                 !.try_active_original_time = original,
                                 !.try_active_fresh_time = fresh])
    /\ IF ~TerminalNameGiven(station_info)
       THEN /\ result' = RaiseFrom("TflCycleHireConfigError", NoError)
            /\ pc' = "idle"
       ELSE /\ result' = NoResult
            /\ pc' = "override"
    /\ UNCHANGED cache_vars

SearchedOverride ==
    /\ Running("searched", "override")
    /\ OverrideStrategy("confirm_hire",
                        "override_for_" \o args.station_info.name,
                        "original")

SearchedOriginalTime ==
    /\ Running("searched", "original")
    /\ OriginalTimeStrategy("confirm_hire", "fresh")

SearchedFreshTime ==
    /\ Running("searched", "fresh")
    /\ FreshTimeStrategy("confirm_hire",
                         "active_encoding_fresh_time_for_searched_"
                             \o args.station_info.name,
                         "final")

SearchedFinal ==
    /\ Running("searched", "final")
    /\ FinalRaise

(* ------------------------------- Next ---------------------------------- *)

Next ==
    \/ \E k \in KeyInputs : prime_tokens_from_static_location(k)
    \/ \E tk \in UserTokenInputs : set_active_tokens(tk[1], tk[2], "user_set")
    \/ clear_active_tokens
    \/ \E st \in {h \in StationInputs : Truthy(h.terminal_name)},
          tk \in UserTokenInputs, u \in BOOLEAN :
         get_release_code_with_explicit_tokens(st, tk[1], tk[2], u)
    \/ ExplicitCall
    \/ \E k \in KeyInputs, o \in BOOLEAN, f \in BOOLEAN, s \in BOOLEAN :
         get_release_code_for_static_location(k, o, f, s)
    \/ StaticOriginalTime
    \/ StaticFreshTime
    \/ StaticLocationTokens
    \/ StaticFinal
    \/ \E q \in SearchTextInputs, ov \in OverrideInputs, o \in BOOLEAN,
          f \in BOOLEAN, p \in KeyInputs \cup {None} :
         search_stations(q, ov[1], ov[2], o, f, p)
    \/ SearchOverride
    \/ SearchPrime
    \/ SearchOriginalTime
    \/ SearchFreshTime
    \/ SearchFinal
    \/ \E st \in StationInputs, ov \in OverrideInputs, o \in BOOLEAN,
          f \in BOOLEAN :
         get_release_code_for_searched_station(st, ov[1], ov[2], o, f)
    \/ SearchedOverride
    \/ SearchedOriginalTime
    \/ SearchedFreshTime
    \/ SearchedFinal

Spec == Init /\ [][Next]_vars

\* The steps of a method that was entered.  The methods are synchronous:
\* once called, a method runs on to its return or raise.
MethodStep ==
    \/ ExplicitCall
    \/ StaticOriginalTime \/ StaticFreshTime \/ StaticLocationTokens \/ StaticFinal
    \/ SearchOverride \/ SearchPrime \/ SearchOriginalTime \/ SearchFreshTime \/ SearchFinal
    \/ SearchedOverride \/ SearchedOriginalTime \/ SearchedFreshTime \/ SearchedFinal

\* The SDK whose methods, once entered, keep running.
SpecFair == Spec /\ WF_vars(MethodStep)

(* -------------------- the remote calls on their own -------------------- *)

\* The SDK as constructed, on which one remote call is run.
Constructed ==
    /\ static_location_data = LocationData
    /\ active_c3_encoding = None
    /\ active_original_c3_clienttime = None
    /\ active_token_source_info = None
    /\ clock = 0
    /\ op = "none"
    /\ pc = "idle"
    /\ args = DefaultArgs
    /\ last_error = NoError
    /\ attempts = <<>>
    /\ result = NoResult
    /\ entry_cache = EmptyCache

\* What a remote call run on its own leaves alone: it reads and writes no
\* field of the SDK.
CallFrame ==
    UNCHANGED <<static_location_data, cache_vars, clock, op, pc, args,
                last_error, attempts, result, entry_cache, response,
                scanned, station_data_aggregator, app_vars>>

ConfirmInit ==
    /\ Constructed
    /\ AppStarted
    /\ scanned = 0
    /\ station_data_aggregator = EmptyAggregator
    /\ response \in ConfirmInputs
    /\ outcome = NoOutcome

\* _execute_confirm_hire_api_call receives the response.
ConfirmCall ==
    /\ outcome = NoOutcome
    /\ outcome' = ExecuteConfirmHire(response, clock)
    /\ CallFrame

ConfirmNext == ConfirmCall

SpecConfirm == ConfirmInit /\ [][ConfirmNext]_vars

SearchInit ==
    /\ Constructed
    /\ AppStarted
    /\ scanned = 0
    /\ station_data_aggregator = EmptyAggregator
    /\ response \in SearchInputs
    /\ outcome = NoOutcome

\* _execute_search_api_call receives the response.
SearchCall ==
    /\ outcome = NoOutcome
    /\ outcome' = ExecuteSearch(response, clock)
    /\ CallFrame

SearchNext == SearchCall

SpecSearch == SearchInit /\ [][SearchNext]_vars

(* ---------- the parsing of a search body, one fragment at a time ------- *)

\* "children = data.get('Children', [])" of the body under test.
ScanChildren == Get(response.data, "Children", <<>>)

\* What a step of the parsing leaves alone.
ScanFrame ==
    UNCHANGED <<static_location_data, cache_vars, clock, op, pc, args,
                last_error, attempts, result, entry_cache, response,
                app_vars>>

\* A body was decoded; the first loop is about to start.
ScanInit ==
    /\ Constructed
    /\ AppStarted
    /\ response \in {r \in SearchInputs : r.kind = "json"}
    /\ outcome = NoOutcome
    /\ scanned = 0
    /\ station_data_aggregator = EmptyAggregator

\* One pass of "for child in children".
ScanChild ==
    /\ outcome = NoOutcome
    /\ scanned < Len(ScanChildren)
    /\ station_data_aggregator' =
           AggregateChild(station_data_aggregator, ScanChildren[scanned + 1])
    /\ scanned' = scanned + 1
    /\ UNCHANGED outcome
    /\ ScanFrame

\* "for prefix, collected_details in station_data_aggregator.items()",
\* then "return results".
ScanResolve ==
    /\ outcome = NoOutcome
    /\ scanned = Len(ScanChildren)
    /\ outcome' = Returned(ResolveEntries(station_data_aggregator,
                                          Len(station_data_aggregator.keys)))
    /\ UNCHANGED <<scanned, station_data_aggregator>>
    /\ ScanFrame

ScanNext == ScanChild \/ ScanResolve

SpecScan == ScanInit /\ [][ScanNext]_vars

(* ----------------------- the favorites of the app ---------------------- *)

\* The station records the "Add Fav" button is pressed on: two records
\* for station 7, one for 9 and one for 14 that can be hired, and records
\* without and with an empty terminal name.
FavoriteInputs ==
    { [station_id |-> "7", name |-> "King's Cross", subtitle |-> "12 bikes",
       terminal_name |-> "300100", point_name |-> "King's Cross, Station Rd",
       dock_location |-> None],
      [station_id |-> "7", name |-> "King's Cross St Pancras", subtitle |-> "3 bikes",
       terminal_name |-> "300199", point_name |-> "King's Cross St Pancras",
       dock_location |-> None],
      [station_id |-> "9", name |-> "Euston Rd", subtitle |-> "N/A",
       terminal_name |-> "300900", point_name |-> "Euston Rd",
       dock_location |-> None],
      [station_id |-> "14", name |-> "Soho Square", subtitle |-> "5 bikes",
       terminal_name |-> "300140", point_name |-> "Soho Square, Soho",
       dock_location |-> None],
      [station_id |-> "9", name |-> "Euston Rd", subtitle |-> "N/A",
       terminal_name |-> None, point_name |-> "Euston Rd",
       dock_location |-> None],
      [station_id |-> "21", name |-> "Hoxton Station", subtitle |-> "0 bikes",
       terminal_name |-> "", point_name |-> "Hoxton Station",
       dock_location |-> None] }

\* The station ids the remove button is pressed on.
RemoveInputs == {"7", "9", "14", "404"}

\* What the session holds of an earlier "Get Code": nothing, or the
\* station and its code.
SelectionInputs ==
    { <<<<>>, None>> }
    \cup {<<<<st>>, "4821">> :
              st \in {h \in FavoriteInputs : h.terminal_name \in {"300100", "300140"}}}

\* The error messages a failed "Get Code" left behind, if any.
ErrorMessageInputs ==
    {None, "Error getting code for favorite 'Euston Rd': All token strategies failed"}

\* save_favorites_to_file: json.dump to FAVORITES_FILE; every exception is
\* caught and logged, and the file is then as it was when it could not be
\* opened.
SaveFavorites(favorites_list) ==
    \/ favorites_file' = [exists |-> TRUE, content |-> favorites_list]
    \/ UNCHANGED favorites_file

\* Mutant of AlreadyFavorite: the whole record is compared.
AlreadyFavorite_SameRecord(station_info) ==
    \E i \in 1..Len(favorites) : favorites[i] = station_info

\* "any(fav['station_id'] == station_info['station_id'] for fav in ...)".
AlreadyFavorite(station_info) ==
    \E i \in 1..Len(favorites) : favorites[i].station_id = station_info.station_id

\* What the helpers leave alone: they do not touch the SDK.
FavoritesFrame ==
    UNCHANGED <<static_location_data, cache_vars, clock, op, pc, args,
                last_error, attempts, result, entry_cache, call_vars>>

add_to_favorites(station_info) ==
    /\ called' = [name |-> "add_to_favorites", station_id |-> station_info.station_id]
    /\ IF ~AlreadyFavorite(station_info) /\ Truthy(station_info.terminal_name)
       THEN /\ favorites' = Append(favorites, station_info)
            /\ SaveFavorites(favorites')
            /\ error_message' = None
       ELSE UNCHANGED <<favorites, favorites_file, error_message>>
    /\ UNCHANGED <<selected_station_info_for_code, release_code>>
    /\ FavoritesFrame

\* "[fav for fav in st.session_state.favorites if fav['station_id'] !=
\* station_id]".
WithoutStation(favorites_list, station_id) ==
    SelectSeq(favorites_list, LAMBDA fav : fav.station_id # station_id)

remove_from_favorites(station_id) ==
    /\ called' = [name |-> "remove_from_favorites", station_id |-> station_id]
    /\ favorites' = WithoutStation(favorites, station_id)
    /\ SaveFavorites(favorites')
    /\ error_message' = None
    /\ IF /\ selected_station_info_for_code # <<>>
          /\ selected_station_info_for_code[1].station_id = station_id
       THEN /\ release_code' = None
            /\ selected_station_info_for_code' = <<>>
       ELSE UNCHANGED <<selected_station_info_for_code, release_code>>
    /\ FavoritesFrame

\* A session with no favorites yet, in which a code may have been fetched.
FavoritesInit ==
    /\ Constructed
    /\ response = NoResponse
    /\ outcome = NoOutcome
    /\ scanned = 0
    /\ station_data_aggregator = EmptyAggregator
    /\ favorites = <<>>
    /\ favorites_file = NoFile
    /\ \E sel \in SelectionInputs :
          /\ selected_station_info_for_code = sel[1]
          /\ release_code = sel[2]
    /\ error_message \in ErrorMessageInputs
    /\ called = NoCall

FavoritesNext ==
    \/ \E station_info \in FavoriteInputs : add_to_favorites(station_info)
    \/ \E station_id \in RemoveInputs : remove_from_favorites(station_id)

SpecFavorites == FavoritesInit /\ [][FavoritesNext]_vars

TypeOK ==
    /\ pc \in {"idle", "call", "override", "prime", "original", "fresh", "static", "final"}
    /\ op \in {"none", "prime", "set", "clear", "explicit", "static", "search", "searched"}
    /\ clock \in 0..MaxClock
    /\ Len(attempts) <= MaxChain

(* ------------------------------ claims --------------------------------- *)

\* The invocation on record is one of the three strategy engines.
EngineOp == op \in {"static", "search", "searched"}

\* It got past the validation of its inputs.
Validated ==
    /\ op = "static" => args.location_key \in DOMAIN static_location_data
    /\ op = "searched" => Truthy(args.station_info.terminal_name)

\* It has ended.
Ended == pc = "idle" /\ result.status # "none"

NumAttempts == Len(attempts)

LastAttempt == attempts[Len(attempts)]

\* The place of a strategy in the fixed order.
Rank(strategy) ==
    CASE strategy = "override" -> 0
      [] strategy = "original" -> 1
      [] strategy = "fresh" -> 2
      [] strategy = "static" -> 3

HasPrefix(s, prefix) ==
    Len(s) >= Len(prefix) /\ SubSeq(s, 1, Len(prefix)) = prefix

\* The step made a remote call for the given strategy and the call
\* succeeded.
SucceededStep(strategy) ==
    /\ Len(attempts') = Len(attempts) + 1
    /\ attempts'[Len(attempts')].strategy = strategy
    /\ attempts'[Len(attempts')].ok

\* C1: in the three engines the remote attempts of an invocation are made
\* in the order override, original time, fresh time, known-location
\* fallback, and no attempt is made for a strategy whose flag is off (for
\* the override: whose pair was not supplied).
C1_FixedOrderEnabledOnly ==
    EngineOp =>
      /\ \A i, j \in 1..NumAttempts :
           i < j => Rank(attempts[i].strategy) < Rank(attempts[j].strategy)
      /\ \A i \in 1..NumAttempts :
           /\ attempts[i].strategy = "override" =>
                /\ op \in {"search", "searched"}
                /\ Truthy(args.c3_encoding_override)
                /\ Truthy(args.c3_clienttime_override)
           /\ attempts[i].strategy = "original" => args.try_active_original_time
           /\ attempts[i].strategy = "fresh" => args.try_active_fresh_time
           /\ attempts[i].strategy = "static" =>
                op = "static" /\ args.try_static_location_tokens

\* An invocation that skipped the disabled fresh-time strategy between two
\* attempts.
C1_Witness ==
    /\ op = "static"
    /\ ~args.try_active_fresh_time
    /\ NumAttempts = 2
    /\ attempts[1].strategy = "original"
    /\ attempts[2].strategy = "static"

\* C2: in search_stations and get_release_code_for_searched_station a
\* failed override attempt ends the invocation in failure after that one
\* remote attempt, whatever the flags and the cache are.
C2_OverrideFailureAborts ==
    ( /\ op \in {"search", "searched"}
      /\ NumAttempts >= 1
      /\ attempts[1].strategy = "override"
      /\ ~attempts[1].ok )
    => ( /\ NumAttempts = 1
         /\ pc = "idle"
         /\ result.status = "raised" )

\* A failed override with both cache strategies enabled and a full cache.
C2_Witness ==
    /\ op = "search"
    /\ NumAttempts = 1
    /\ attempts[1].strategy = "override"
    /\ ~attempts[1].ok
    /\ args.try_active_original_time
    /\ args.try_active_fresh_time
    /\ Truthy(active_c3_encoding)
    /\ Truthy(active_original_c3_clienttime)

\* C3: an attempt that succeeds is the last attempt of its invocation, and
\* the invocation has returned that attempt's value.
C3_FirstSuccessReturned ==
    EngineOp =>
      \A i \in 1..NumAttempts :
        attempts[i].ok =>
          /\ i = NumAttempts
          /\ pc = "idle"
          /\ result.status = "returned"
          /\ result.value = attempts[i].value

\* A success of the second attempt after a failure of the first.
C3_Witness ==
    /\ op = "search"
    /\ NumAttempts = 2
    /\ ~attempts[1].ok
    /\ attempts[2].ok
    /\ result.status = "returned"

\* C4: a step in which the fresh-time strategy succeeds leaves the cache
\* with the encoding that was active before it, the fresh client time that
\* was sent, and a source label that notes the refresh.
C4_FreshSuccessPersistsPair ==
    [][ SucceededStep("fresh") =>
          /\ attempts'[Len(attempts')].c3_encoding = active_c3_encoding
          /\ attempts'[Len(attempts')].c3_clienttime = FormatTime(clock)
          /\ active_c3_encoding' = active_c3_encoding
          /\ active_original_c3_clienttime' = attempts'[Len(attempts')].c3_clienttime
          /\ HasPrefix(active_token_source_info', "active_encoding_fresh_time_for_")
      ]_vars

\* A fresh-time success that replaced the client time of the cache.
C4_Witness ==
    /\ EngineOp
    /\ NumAttempts >= 1
    /\ LastAttempt.strategy = "fresh"
    /\ LastAttempt.ok
    /\ entry_cache.original_c3_clienttime # active_original_c3_clienttime

\* C5: a step in which the original-time strategy succeeds changes nothing
\* of the cache.
C5_OriginalSuccessKeepsCache ==
    [][ SucceededStep("original") => UNCHANGED cache_vars ]_vars

\* An original-time success.
C5_Witness ==
    /\ EngineOp
    /\ NumAttempts = 1
    /\ LastAttempt.strategy = "original"
    /\ LastAttempt.ok
    /\ result.status = "returned"

\* C6: in search_stations and get_release_code_for_searched_station, after
\* a successful override attempt the cache holds the override pair and a
\* source label of the override, whatever it held before.
C6_OverrideSuccessOverwrites ==
    ( /\ op \in {"search", "searched"}
      /\ NumAttempts >= 1
      /\ attempts[1].strategy = "override"
      /\ attempts[1].ok )
    => ( /\ attempts[1].c3_encoding = args.c3_encoding_override
         /\ attempts[1].c3_clienttime = args.c3_clienttime_override
         /\ active_c3_encoding = args.c3_encoding_override
         /\ active_original_c3_clienttime = args.c3_clienttime_override
         /\ active_token_source_info =
              IF op = "search"
              THEN "explicit_override_for_search_" \o args.search_text
              ELSE "override_for_" \o args.station_info.name )

\* A successful override over a cache that held other tokens.
C6_Witness ==
    /\ op = "searched"
    /\ NumAttempts = 1
    /\ attempts[1].strategy = "override"
    /\ attempts[1].ok
    /\ Truthy(entry_cache.c3_encoding)
    /\ entry_cache.c3_encoding # args.c3_encoding_override

\* C7 as stated: after every successful call of
\* get_release_code_with_explicit_tokens the cache holds the supplied pair.
C7_ExplicitAlwaysOverwrites ==
    (op = "explicit" /\ result.status = "returned") =>
      /\ active_c3_encoding = args.c3_encoding
      /\ active_original_c3_clienttime = args.c3_clienttime

\* C7, amended: after a successful call of
\* get_release_code_with_explicit_tokens the cache holds the supplied pair
\* and the label explicit_call_for_<point_name> when
\* update_active_tokens_on_success is true, and is as it was before the
\* call when it is false.
C7_ExplicitOverwritesWhenAsked ==
    (op = "explicit" /\ result.status = "returned") =>
      IF args.update_active_tokens_on_success
      THEN /\ active_c3_encoding = args.c3_encoding
           /\ active_original_c3_clienttime = args.c3_clienttime
           /\ active_token_source_info = "explicit_call_for_" \o args.point_name
      ELSE active_token_info = entry_cache

\* A successful explicit call that replaced other tokens in the cache.
C7_Witness ==
    /\ op = "explicit"
    /\ result.status = "returned"
    /\ args.update_active_tokens_on_success
    /\ Truthy(entry_cache.c3_encoding)
    /\ entry_cache.c3_encoding # args.c3_encoding

\* C8: in get_release_code_for_static_location with the fallback enabled
\* and example tokens on the target location, a chain that has not
\* returned before makes the fallback attempt; that attempt comes after
\* the cache strategies, all of which failed or were skipped, sends the
\* example pair, and on success leaves the example pair in the cache.
C8_StaticFallback ==
    ( /\ op = "static"
      /\ args.location_key \in DOMAIN static_location_data
      /\ args.try_static_location_tokens
      /\ "c3_encoding" \in DOMAIN static_location_data[args.location_key]
      /\ "c3_clienttime" \in DOMAIN static_location_data[args.location_key] )
    => LET example == static_location_data[args.location_key]
       IN  /\ (pc = "final" \/ (pc = "idle" /\ result.status = "raised")) =>
                (NumAttempts >= 1 /\ LastAttempt.strategy = "static")
           /\ \A i \in 1..NumAttempts :
                attempts[i].strategy = "static" =>
                  /\ i = NumAttempts
                  /\ \A j \in 1..(i - 1) :
                       /\ ~attempts[j].ok
                       /\ attempts[j].strategy \in {"original", "fresh"}
                  /\ attempts[i].c3_encoding = example.c3_encoding
                  /\ attempts[i].c3_clienttime = example.c3_clienttime
                  /\ attempts[i].ok =>
                       /\ active_c3_encoding = example.c3_encoding
                       /\ active_original_c3_clienttime = example.c3_clienttime
                       /\ active_token_source_info =
                            "static_example_for_" \o args.location_key

\* A fallback success after both cache strategies failed, over a cache
\* that held other tokens.
C8_Witness ==
    /\ op = "static"
    /\ NumAttempts = 3
    /\ attempts[3].strategy = "static"
    /\ attempts[3].ok
    /\ entry_cache.c3_encoding # active_c3_encoding

\* C9: an engine invocation that fails after the validation of its inputs
\* raises TflCycleHireConfigError exactly when it made no remote attempt,
\* and TflCycleHireSDKError with a cause exactly when it made one or more.
C9_FailureKindByAttempts ==
    (EngineOp /\ Ended /\ result.status = "raised" /\ Validated) =>
      /\ result.exc_type = "TflCycleHireConfigError" <=> NumAttempts = 0
      /\ (result.exc_type = "TflCycleHireSDKError" /\ result.cause # NoError)
           <=> NumAttempts >= 1

\* A failure without any attempt although both cache strategies were
\* enabled: the cache was empty.
C9_Witness ==
    /\ op = "searched"
    /\ Ended
    /\ Validated
    /\ result.exc_type = "TflCycleHireConfigError"
    /\ NumAttempts = 0
    /\ args.try_active_original_time
    /\ args.try_active_fresh_time

\* C10: when an engine invocation fails after one or more attempts, every
\* attempt failed and the cause of the failure is the error of the last
\* attempt.
C10_CauseIsLastError ==
    (EngineOp /\ Ended /\ result.status = "raised" /\ NumAttempts >= 1) =>
      /\ \A i \in 1..NumAttempts : ~attempts[i].ok
      /\ result.cause = LastAttempt.error

\* A failure after three attempts whose first and last errors differ in
\* class.
C10_Witness ==
    /\ op = "static"
    /\ Ended
    /\ result.status = "raised"
    /\ NumAttempts = 3
    /\ attempts[1].error.type # attempts[3].error.type

\* How far the chain of the invocation has come: the rank of the strategy
\* it stands at, past every strategy at its end.
PcRank ==
    CASE pc = "override" -> 0
      [] pc = "prime" -> 0
      [] pc = "original" -> 1
      [] pc = "fresh" -> 2
      [] pc = "static" -> 3
      [] pc = "final" -> 4
      [] OTHER -> 5

\* The strategies that read the cache or the table, in the engine on record.
NonOverrideStrategies ==
    IF op = "static" THEN {"original", "fresh", "static"} ELSE {"original", "fresh"}

\* The flag and the tokens of a non-override strategy, read where no call
\* of the invocation has succeeded (the cache is then the one the
\* strategies saw).
EnabledInChain(strategy) ==
    CASE strategy = "original" ->
            /\ args.try_active_original_time
            /\ Truthy(active_c3_encoding)
            /\ Truthy(active_original_c3_clienttime)
      [] strategy = "fresh" ->
            args.try_active_fresh_time /\ Truthy(active_c3_encoding)
      [] strategy = "static" ->
            /\ args.try_static_location_tokens
            /\ "c3_encoding" \in DOMAIN static_location_data[args.location_key]
            /\ "c3_clienttime" \in DOMAIN static_location_data[args.location_key]

\* C11: when the attempt of a non-override strategy fails, with a
\* transport failure or with a data error alike, the invocation is not
\* over: every enabled strategy the chain has passed has been attempted,
\* so the failure was followed by the next enabled strategy, and no
\* strategy is attempted twice in an invocation.
C11_FailureMovesOn ==
    EngineOp /\ Validated =>
        /\ \A i \in 1..NumAttempts : \A j \in 1..NumAttempts :
              i # j => attempts[i].strategy # attempts[j].strategy
        /\ (\A i \in 1..NumAttempts :
                ~attempts[i].ok /\ attempts[i].strategy # "override") =>
              \A strategy \in NonOverrideStrategies :
                  Rank(strategy) < PcRank /\ EnabledInChain(strategy) =>
                      \E i \in 1..NumAttempts : attempts[i].strategy = strategy

\* A data error was followed by the next strategy, whose transport failure
\* was followed by the third.
C11_Witness ==
    /\ op = "static"
    /\ NumAttempts = 3
    /\ attempts[1].error.type = "TflCycleHireDataError"
    /\ attempts[2].error.type \in {"TflCycleHireAPIError", "TflCycleHireSDKError"}
    /\ attempts[2].strategy = "fresh"
    /\ attempts[3].strategy = "static"

\* C12: get_release_code_for_static_location with a key that is not in the
\* table, and get_release_code_for_searched_station with a record that has
\* no terminal name, with or without an override pair, end at once with
\* TflCycleHireConfigError, after no remote attempt and with the cache as
\* it was.
C12_ConfigErrorAtOnce ==
    EngineOp /\ ~Validated =>
        /\ pc = "idle"
        /\ result = RaiseFrom("TflCycleHireConfigError", NoError)
        /\ attempts = <<>>
        /\ active_token_info = entry_cache

\* A record without terminal name was submitted with a whole override pair
\* while the cache held tokens.
C12_Witness ==
    /\ op = "searched"
    /\ ~Truthy(args.station_info.terminal_name)
    /\ Truthy(args.c3_encoding_override)
    /\ Truthy(args.c3_clienttime_override)
    /\ Truthy(entry_cache.c3_encoding)
    /\ result.status = "raised"

\* The static counterpart: a key outside the table.
C12_WitnessStatic ==
    /\ op = "static"
    /\ args.location_key \notin DOMAIN static_location_data
    /\ result.status = "raised"

\* search_stations has come past its priming step without an override
\* attempt (an override attempt ends the invocation before the priming).
PastPriming ==
    /\ op = "search"
    /\ PcRank >= 1
    /\ \A i \in 1..NumAttempts : attempts[i].strategy # "override"

\* The hint of the invocation names a location of the table that carries
\* example tokens.
HintPrimeable ==
    /\ Truthy(args.prime_from_static_if_no_active)
    /\ args.prime_from_static_if_no_active \in DOMAIN static_location_data
    /\ "c3_encoding" \in DOMAIN static_location_data[args.prime_from_static_if_no_active]
    /\ "c3_clienttime" \in DOMAIN static_location_data[args.prime_from_static_if_no_active]

HintedExample == static_location_data[args.prime_from_static_if_no_active]

AllAttemptsFailed == \A i \in 1..NumAttempts : ~attempts[i].ok

\* C13 as stated: in search_stations with a hint and an empty cache at the
\* start, the cache holds the example tokens of the hinted location before
\* any cache strategy runs, the priming makes no remote call, and the first
\* cache-based attempt sends exactly the example pair (encoding and
\* clientTime); with a non-empty cache at the start the hint leaves the
\* cache alone.  The cache counts as empty when it holds no encoding.
C13_FirstAttemptSendsExamplePair ==
    PastPriming /\ Truthy(args.prime_from_static_if_no_active) =>
        /\ pc = "original" => attempts = <<>>
        /\ ~Truthy(entry_cache.c3_encoding) /\ HintPrimeable =>
              /\ AllAttemptsFailed =>
                    active_token_info =
                        [c3_encoding |-> HintedExample.c3_encoding,
                         original_c3_clienttime |-> HintedExample.c3_clienttime,
                         source |-> "static_example_for_"
                                        \o args.prime_from_static_if_no_active]
              /\ NumAttempts >= 1 =>
                    /\ attempts[1].c3_encoding = HintedExample.c3_encoding
                    /\ attempts[1].c3_clienttime = HintedExample.c3_clienttime
        /\ Truthy(entry_cache.c3_encoding) /\ AllAttemptsFailed =>
              active_token_info = entry_cache

\* C13, amended: as above, but the first cache-based attempt sends the
\* example encoding, and with it the example clientTime only when that
\* attempt is the original-time strategy; a first attempt by the fresh-time
\* strategy pairs the example encoding with the time of the call.
C13_PrimedBeforeCacheStrategies ==
    PastPriming /\ Truthy(args.prime_from_static_if_no_active) =>
        /\ pc = "original" => attempts = <<>>
        /\ ~Truthy(entry_cache.c3_encoding) /\ HintPrimeable =>
              /\ AllAttemptsFailed =>
                    active_token_info =
                        [c3_encoding |-> HintedExample.c3_encoding,
                         original_c3_clienttime |-> HintedExample.c3_clienttime,
                         source |-> "static_example_for_"
                                        \o args.prime_from_static_if_no_active]
              /\ NumAttempts >= 1 =>
                    /\ attempts[1].c3_encoding = HintedExample.c3_encoding
                    /\ attempts[1].strategy = "original" =>
                          attempts[1].c3_clienttime = HintedExample.c3_clienttime
        /\ Truthy(entry_cache.c3_encoding) /\ AllAttemptsFailed =>
              active_token_info = entry_cache

\* A search that started on an empty cache with a good hint has made its
\* original-time attempt.
C13_Witness ==
    /\ PastPriming
    /\ HintPrimeable
    /\ entry_cache = EmptyCache
    /\ NumAttempts >= 1
    /\ attempts[1].strategy = "original"
    /\ attempts[1].c3_encoding = HintedExample.c3_encoding

\* A search with a good hint that started on a cache with tokens in it.
C13_WitnessNonEmpty ==
    /\ PastPriming
    /\ HintPrimeable
    /\ Truthy(entry_cache.c3_encoding)
    /\ entry_cache.c3_encoding # HintedExample.c3_encoding
    /\ NumAttempts >= 1

\* C14: in search_stations a priming that fails (the hint is no key of the
\* table, or its location has no example tokens) does not end the
\* invocation: the chain goes through its cache strategies with the cache
\* as it was, and on a cache that is still empty it makes no remote attempt
\* and ends with TflCycleHireConfigError (no strategy available).
C14_PrimingFailureGoesOn ==
    /\ PastPriming
    /\ Truthy(args.prime_from_static_if_no_active)
    /\ ~HintPrimeable
    /\ ~Truthy(entry_cache.c3_encoding)
    =>  /\ active_token_info = entry_cache
        /\ attempts = <<>>
        /\ pc # "idle" => result.status = "none"
        /\ pc = "idle" => result = RaiseFrom("TflCycleHireConfigError", NoError)

\* The hinted location is in the table but has no example tokens.
C14_Witness ==
    /\ PastPriming
    /\ args.prime_from_static_if_no_active \in DOMAIN static_location_data
    /\ ~HintPrimeable
    /\ entry_cache = EmptyCache
    /\ args.try_active_original_time
    /\ args.try_active_fresh_time
    /\ Ended

\* The hint is no key of the table; the chain stands at its fresh-time
\* strategy.
C14_WitnessUnknownKey ==
    /\ PastPriming
    /\ Truthy(args.prime_from_static_if_no_active)
    /\ args.prime_from_static_if_no_active \notin DOMAIN static_location_data
    /\ ~Truthy(entry_cache.c3_encoding)
    /\ pc = "fresh"

(* ----------------- claims about the release-code extraction ------------ *)

\* The remote call under test has answered.
CallDone == outcome # NoOutcome

\* It answered on a body that was decoded.
BodyParsed == CallDone /\ response.kind = "json"

\* The fragment list of the decoded body.
Fragments ==
    IF "Children" \in DOMAIN response.data THEN response.data.Children ELSE <<>>

HasSuffix(s, suffix) ==
    Len(s) >= Len(suffix) /\ SubSeq(s, Len(s) - Len(suffix) + 1, Len(s)) = suffix

\* The fragment has the exact caption as its label and carries a subtitle.
IsCaptionFragment(f) ==
    /\ "Name" \in DOMAIN f
    /\ f.Name = "Your cycle hire release code:"
    /\ "Subtitle" \in DOMAIN f

\* The text "Release code " stands at position p of the label, followed by
\* a digit.
MatchAt(name, p) ==
    /\ p >= 1
    /\ p + 13 <= Len(name)
    /\ SubSeq(name, p, p + 12) = "Release code "
    /\ SubSeq(name, p + 13, p + 13) \in {"0", "1", "2", "3", "4", "5", "6", "7", "8", "9"}

\* v is the whole run of digits after the leftmost "Release code " of the
\* label.
IsCapture(name, v) ==
    \E p \in 1..Len(name) :
        /\ MatchAt(name, p)
        /\ \A q \in 1..(p - 1) : ~MatchAt(name, q)
        /\ Len(v) >= 1
        /\ p + 12 + Len(v) <= Len(name)
        /\ SubSeq(name, p + 13, p + 12 + Len(v)) = v
        /\ \A k \in 1..Len(v) :
              SubSeq(v, k, k) \in {"0", "1", "2", "3", "4", "5", "6", "7", "8", "9"}
        /\ p + 13 + Len(v) <= Len(name) =>
              SubSeq(name, p + 13 + Len(v), p + 13 + Len(v))
                  \notin {"0", "1", "2", "3", "4", "5", "6", "7", "8", "9"}

\* The fragment is an unlock bar whose label holds a release code.
IsUnlockFragment(f) ==
    /\ "ID" \in DOMAIN f
    /\ HasSuffix(f.ID, "_unlockbar")
    /\ "Name" \in DOMAIN f
    /\ \E p \in 1..Len(f.Name) : MatchAt(f.Name, p)

\* Position i holds the first fragment of its shape.
FirstCaptionAt(i) ==
    /\ IsCaptionFragment(Fragments[i])
    /\ \A j \in 1..(i - 1) : ~IsCaptionFragment(Fragments[j])

FirstUnlockAt(i) ==
    /\ IsUnlockFragment(Fragments[i])
    /\ \A j \in 1..(i - 1) : ~IsUnlockFragment(Fragments[j])

\* C15 as stated: whenever the list holds a fragment with the exact caption
\* and a subtitle, the extraction returns the subtitle of the first such
\* fragment, whatever else is in the list.
C15_CaptionSubtitleReturned ==
    BodyParsed =>
        \A i \in 1..Len(Fragments) :
            FirstCaptionAt(i) => outcome = Returned(Fragments[i].Subtitle)

\* C15, amended: whenever the first fragment with the exact caption and a
\* subtitle has a non-empty subtitle, the extraction returns that subtitle,
\* whatever else is in the list and wherever an unlock bar stands.
C15_NonEmptyCaptionSubtitleReturned ==
    BodyParsed =>
        \A i \in 1..Len(Fragments) :
            FirstCaptionAt(i) /\ Fragments[i].Subtitle \notin {"", None} =>
                outcome = Returned(Fragments[i].Subtitle)

\* An unlock bar with a code stands before the caption fragment, and a
\* second caption fragment with another code stands after it.
C15_Witness ==
    /\ BodyParsed
    /\ Len(Fragments) = 3
    /\ IsUnlockFragment(Fragments[1])
    /\ FirstCaptionAt(2)
    /\ IsCaptionFragment(Fragments[3])
    /\ Fragments[3].Subtitle \notin {"", Fragments[2].Subtitle}
    /\ outcome.ok
    /\ outcome.value = Fragments[2].Subtitle

\* C16: when the caption scan yields no code (no fragment has the exact
\* caption and a subtitle, or the first that has carries an empty one), the
\* extraction returns the digits captured from "Release code <digits>" in
\* the label of the first fragment whose ID ends with _unlockbar and whose
\* label matches; a fragment with the suffix and another label, or with a
\* matching label and another ID, is passed over, so that a list with no
\* fragment of the full shape yields no code.
C16_UnlockbarFallback ==
    /\ BodyParsed
    /\ \A i \in 1..Len(Fragments) :
          FirstCaptionAt(i) => Fragments[i].Subtitle \in {"", None}
    =>  /\ \A i \in 1..Len(Fragments) :
              FirstUnlockAt(i) =>
                  /\ outcome.ok
                  /\ IsCapture(Fragments[i].Name, outcome.value)
        /\ (\A i \in 1..Len(Fragments) : ~IsUnlockFragment(Fragments[i])) =>
              ~outcome.ok

\* An unlock bar with another label and a matching label on another ID
\* stand before the unlock bar whose code is returned.
C16_Witness ==
    /\ BodyParsed
    /\ Len(Fragments) = 3
    /\ "Name" \in DOMAIN Fragments[1]
    /\ HasSuffix(Fragments[1].ID, "_unlockbar")
    /\ ~IsUnlockFragment(Fragments[1])
    /\ ~HasSuffix(Fragments[2].ID, "_unlockbar")
    /\ \E p \in 1..Len(Fragments[2].Name) : MatchAt(Fragments[2].Name, p)
    /\ FirstUnlockAt(3)
    /\ outcome.ok
    /\ outcome.value = "22"

\* C17: when the list holds neither a fragment with the exact caption and
\* a subtitle nor an unlock bar with a matching label (the empty list and a
\* body without list included), the call fails with
\* TflCycleHireDataError, and no transport failure is reported with that
\* class.
C17_CodeNotFoundIsDataError ==
    CallDone =>
        /\ /\ response.kind = "json"
           /\ \A i \in 1..Len(Fragments) :
                 ~IsCaptionFragment(Fragments[i]) /\ ~IsUnlockFragment(Fragments[i])
           => ~outcome.ok /\ outcome.error.type = "TflCycleHireDataError"
        /\ response.kind # "json" =>
              /\ ~outcome.ok
              /\ outcome.error.type \in {"TflCycleHireAPIError", "TflCycleHireSDKError"}

\* The body is a list of fragments none of which has either shape.
C17_Witness ==
    /\ BodyParsed
    /\ Len(Fragments) = 2
    /\ HasSuffix(Fragments[1].ID, "_unlockbar")
    /\ "Name" \in DOMAIN Fragments[2]
    /\ Fragments[2].Name = "Release code 5555"
    /\ outcome.error.type = "TflCycleHireDataError"

\* The body holds the empty list.
C17_WitnessEmptyList ==
    /\ BodyParsed
    /\ "Children" \in DOMAIN response.data
    /\ Fragments = <<>>
    /\ outcome.error.type = "TflCycleHireDataError"

(* ------------------- claims about the station aggregation -------------- *)

\* A value of the body that is there and not empty.
Present(v) == v \notin {"", None}

Field(f, n) == IF n \in DOMAIN f THEN f[n] ELSE None

Tag(f, t) ==
    IF "Tags" \in DOMAIN f /\ t \in DOMAIN f.Tags THEN f.Tags[t] ELSE None

\* k is the group key of the ID: lchs_searchresult_ and all the digits that
\* follow it.
IsKeyOf(k, id) ==
    /\ Len(k) >= 19
    /\ Len(id) >= Len(k)
    /\ SubSeq(id, 1, Len(k)) = k
    /\ SubSeq(k, 1, 18) = "lchs_searchresult_"
    /\ \A c \in 19..Len(k) :
          SubSeq(k, c, c) \in {"0", "1", "2", "3", "4", "5", "6", "7", "8", "9"}
    /\ Len(id) > Len(k) =>
          SubSeq(id, Len(k) + 1, Len(k) + 1)
              \notin {"0", "1", "2", "3", "4", "5", "6", "7", "8", "9"}

\* The group keys of the fragment list.
GroupKeys ==
    {k \in UNION {{SubSeq(Field(Fragments[i], "ID"), 1, n) :
                      n \in 19..Len(Field(Fragments[i], "ID"))} :
                  i \in 1..Len(Fragments)} :
        \E i \in 1..Len(Fragments) : IsKeyOf(k, Field(Fragments[i], "ID"))}

\* The positions of the links, and of the "Hire now" images, of a group.
LinksOf(k) ==
    {i \in 1..Len(Fragments) :
        /\ IsKeyOf(k, Field(Fragments[i], "ID"))
        /\ Field(Fragments[i], "Type") = "Node.Link"}

ImagesOf(k) ==
    {i \in 1..Len(Fragments) :
        /\ IsKeyOf(k, Field(Fragments[i], "ID"))
        /\ Field(Fragments[i], "Type") = "Node.Media.Image"
        /\ Field(Fragments[i], "Name") = "Hire now"}

\* The records the search call returned.
Records == IF outcome.ok THEN outcome.value ELSE <<>>

\* C18: every record the search call returns has a non-empty station_id,
\* name and point_name; a group with a named link and no "Hire now" image
\* gives a record all the same, with no terminal name.
C18_RecordsAreComplete ==
    BodyParsed =>
        /\ outcome.ok
        /\ \A i \in 1..Len(Records) :
              /\ Present(Records[i].station_id)
              /\ Present(Records[i].name)
              /\ Present(Records[i].point_name)
        /\ \A k \in GroupKeys :
              /\ Cardinality(LinksOf(k)) = 1
              /\ ImagesOf(k) = {}
              /\ \A l \in LinksOf(k) : Present(Field(Fragments[l], "Name"))
              => \E i \in 1..Len(Records) :
                    /\ Records[i].terminal_name = None
                    /\ \A l \in LinksOf(k) : Records[i].name = Fragments[l].Name

\* A record without terminal name is returned next to one with.
C18_Witness ==
    /\ BodyParsed
    /\ Len(Records) = 2
    /\ Records[1].terminal_name = None
    /\ Present(Records[2].terminal_name)

\* C19: a link and a "Hire now" image with the same lchs_searchresult_<n>
\* prefix, in either order, give exactly one record, with the name and
\* subtitle of the link and the terminal name and point name of the image;
\* no list gives more records than it has group keys.
C19_LinkAndImageMerge ==
    BodyParsed =>
        /\ Len(Records) <= Cardinality(GroupKeys)
        /\ \A k \in GroupKeys :
              /\ GroupKeys = {k}
              /\ Cardinality(LinksOf(k)) = 1
              /\ Cardinality(ImagesOf(k)) = 1
              /\ \A l \in LinksOf(k) : Present(Field(Fragments[l], "Name"))
              /\ \A g \in ImagesOf(k) : Present(Tag(Fragments[g], "PointName"))
              => /\ Len(Records) = 1
                 /\ \A l \in LinksOf(k) :
                       /\ Records[1].name = Fragments[l].Name
                       /\ Records[1].subtitle = Field(Fragments[l], "Subtitle")
                 /\ \A g \in ImagesOf(k) :
                       /\ Records[1].terminal_name = Tag(Fragments[g], "Terminal")
                       /\ Records[1].point_name = Tag(Fragments[g], "PointName")

\* The image came first, something else in between, the link last.
C19_Witness ==
    /\ BodyParsed
    /\ Len(Fragments) = 3
    /\ \E k \in GroupKeys : ImagesOf(k) = {1} /\ LinksOf(k) = {3}
    /\ Cardinality(GroupKeys) = 1
    /\ Len(Records) = 1
    /\ Present(Records[1].terminal_name)
    /\ Records[1].name = Fragments[3].Name

\* The station ids tagged on the "Hire now" images, and on the links, of a
\* group.
ImageStationIds(k) ==
    {Tag(Fragments[g], "StationID") : g \in ImagesOf(k)} \ {"", None}

LinkStationIds(k) ==
    {Tag(Fragments[l], "LCHS.StationID") : l \in LinksOf(k)} \ {"", None}

\* The station id the stated order of preference gives a group.
PreferredStationId(k) ==
    IF ImageStationIds(k) # {}
    THEN CHOOSE x \in ImageStationIds(k) : TRUE
    ELSE IF LinkStationIds(k) # {}
         THEN CHOOSE x \in LinkStationIds(k) : TRUE
         ELSE SubSeq(k, 19, Len(k))

\* The groups that have a named link.
NamedKeys ==
    {k \in GroupKeys : \E l \in LinksOf(k) : Present(Field(Fragments[l], "Name"))}

\* C20: the station_id of a record is the StationID tag of the image of
\* its group when that is non-empty, else the LCHS.StationID tag of its
\* link when that is non-empty, else the number in the group key (on lists
\* with at most one link and one "Hire now" image to a group, where "the
\* image" and "the link" are unambiguous).
C20_StationIdPriority ==
    /\ BodyParsed
    /\ \A k \in GroupKeys :
          Cardinality(LinksOf(k)) <= 1 /\ Cardinality(ImagesOf(k)) <= 1
    =>  /\ Len(Records) = Cardinality(NamedKeys)
        /\ {Records[i].station_id : i \in 1..Len(Records)}
               = {PreferredStationId(k) : k \in NamedKeys}

\* Link and image of a group both carry a station id and the image's is
\* taken; a second group has the id of its link.
C20_Witness ==
    /\ BodyParsed
    /\ \A k \in GroupKeys :
          Cardinality(LinksOf(k)) <= 1 /\ Cardinality(ImagesOf(k)) <= 1
    /\ \E k \in NamedKeys :
          /\ ImageStationIds(k) # {}
          /\ LinkStationIds(k) # {}
          /\ ImageStationIds(k) # LinkStationIds(k)
    /\ \E k \in NamedKeys : ImageStationIds(k) = {} /\ LinkStationIds(k) # {}
    /\ Len(Records) = 2

\* A group with no station id on its fragments has the number of its key.
C20_WitnessNumber ==
    /\ BodyParsed
    /\ \A k \in GroupKeys :
          Cardinality(LinksOf(k)) <= 1 /\ Cardinality(ImagesOf(k)) <= 1
    /\ \E k \in NamedKeys :
          /\ ImageStationIds(k) = {}
          /\ LinkStationIds(k) = {}
          /\ \E i \in 1..Len(Records) : Records[i].station_id = SubSeq(k, 19, Len(k))

\* The last link, and the last "Hire now" image, of a group that has one.
LastLink(k) == CHOOSE l \in LinksOf(k) : \A m \in LinksOf(k) : m <= l

LastImage(k) == CHOOSE g \in ImagesOf(k) : \A m \in ImagesOf(k) : m <= g

\* The name the links of a group give it.
GroupName(k) ==
    IF LinksOf(k) = {} THEN None ELSE Field(Fragments[LastLink(k)], "Name")

\* The groups that have a name.
EmittedKeys == {k \in GroupKeys : Present(GroupName(k))}

\* The point name the stated rule gives a group.
PreferredPointName(k) ==
    IF ImagesOf(k) # {} /\ Present(Tag(Fragments[LastImage(k)], "PointName"))
    THEN Tag(Fragments[LastImage(k)], "PointName")
    ELSE GroupName(k)

\* C21: the point_name of a record is the PointName tag of the "Hire now"
\* image of its group when that is non-empty, and the name of the record
\* otherwise (records are told apart by their names, which differ from
\* group to group).
C21_PointNamePriority ==
    BodyParsed =>
        /\ Len(Records) = Cardinality(EmittedKeys)
        /\ {<<Records[i].name, Records[i].point_name>> : i \in 1..Len(Records)}
               = {<<GroupName(k), PreferredPointName(k)>> : k \in EmittedKeys}

\* The record has the point name tagged on the image of its group, not
\* its name.
C21_Witness ==
    /\ BodyParsed
    /\ Len(Records) = 1
    /\ \E k \in EmittedKeys :
          /\ ImagesOf(k) # {}
          /\ Present(Tag(Fragments[LastImage(k)], "PointName"))
          /\ Records[1].point_name = Tag(Fragments[LastImage(k)], "PointName")
    /\ Records[1].point_name # Records[1].name

\* The image of the group has no PointName tag and the record has its
\* name as point name.
C21_WitnessNoTag ==
    /\ BodyParsed
    /\ Len(Records) = 1
    /\ \E k \in EmittedKeys :
          /\ ImagesOf(k) # {}
          /\ ~Present(Tag(Fragments[LastImage(k)], "PointName"))
    /\ Present(Records[1].terminal_name)
    /\ Records[1].point_name = Records[1].name

\* C22: a group with a link of non-empty name (its last link, if it has
\* several) and no "Hire now" image gives a record, with no terminal name
\* and with its name as point name.
C22_LinkOnlyGroupEmitted ==
    BodyParsed =>
        \A k \in EmittedKeys :
            ImagesOf(k) = {} =>
                \E i \in 1..Len(Records) :
                    /\ Records[i].name = GroupName(k)
                    /\ Records[i].terminal_name = None
                    /\ Records[i].point_name = Records[i].name

\* The group has a link and an image that is no "Hire now" image.
C22_Witness ==
    /\ BodyParsed
    /\ Len(Fragments) = 2
    /\ \E k \in EmittedKeys :
          /\ ImagesOf(k) = {}
          /\ LinksOf(k) = {1}
          /\ IsKeyOf(k, Field(Fragments[2], "ID"))
          /\ Field(Fragments[2], "Type") = "Node.Media.Image"
    /\ Len(Records) = 1
    /\ Records[1].terminal_name = None

\* The fragment list without the fragments of group k.
WithoutGroup(k) ==
    SelectSeq(Fragments, LAMBDA f : ~IsKeyOf(k, Field(f, "ID")))

\* C23: a group without name (no link, or a link with an empty name) does
\* not fail the search, and the records returned are exactly those of the
\* same list with the fragments of that group taken out.
C23_NamelessGroupDropped ==
    BodyParsed =>
        /\ outcome.ok
        /\ \A k \in GroupKeys \ EmittedKeys :
              Records = ParseSearchResults(WithoutGroup(k))

\* A group without name was seen first, a group with a name after it, and
\* the record of the second is returned.
C23_Witness ==
    /\ BodyParsed
    /\ Len(Fragments) = 3
    /\ \E k \in GroupKeys \ EmittedKeys :
          /\ IsKeyOf(k, Field(Fragments[1], "ID"))
          /\ IsKeyOf(k, Field(Fragments[3], "ID"))
          /\ LinksOf(k) # {}
    /\ Len(Records) = 1

\* The position of the first fragment of group k.
FirstSeen(k) ==
    CHOOSE i \in 1..Len(Fragments) :
        /\ IsKeyOf(k, Field(Fragments[i], "ID"))
        /\ \A j \in 1..(i - 1) : ~IsKeyOf(k, Field(Fragments[j], "ID"))

\* C24: the records come in the order in which their group keys were first
\* seen in the fragment list, whatever their names and ids are and wherever
\* the later fragments of a group stand.
C24_FirstSeenOrder ==
    BodyParsed =>
        \A i \in 1..Len(Records) : \A j \in 1..Len(Records) :
            i < j =>
                \E k1 \in EmittedKeys : \E k2 \in EmittedKeys :
                    /\ GroupName(k1) = Records[i].name
                    /\ GroupName(k2) = Records[j].name
                    /\ FirstSeen(k1) < FirstSeen(k2)

\* The group seen first got its name from the last fragment of the list,
\* after the only fragment of the second group; its record comes first
\* though its name comes later in the alphabet.
C24_Witness ==
    /\ BodyParsed
    /\ Len(Fragments) = 3
    /\ Len(Records) = 2
    /\ \E k \in EmittedKeys : FirstSeen(k) = 1 /\ LinksOf(k) = {3}
    /\ Records[1].name = Fragments[3].Name
    /\ Records[2].name = Fragments[2].Name
    /\ Records[2].name = "Euston Rd"

\* Position i holds a link, or a "Hire now" image, that a later fragment
\* of the same kind and group follows.
IsOverwritten(i) ==
    \E k \in GroupKeys :
        \/ i \in LinksOf(k) /\ i # LastLink(k)
        \/ i \in ImagesOf(k) /\ i # LastImage(k)

\* The fragment list with, of every kind and group, the last fragment only.
RECURSIVE LastOfEachKind(_)
LastOfEachKind(i) ==
    IF i = 0
    THEN <<>>
    ELSE IF IsOverwritten(i)
         THEN LastOfEachKind(i - 1)
         ELSE Append(LastOfEachKind(i - 1), Fragments[i])

\* C25: when fragments of one kind share a group key, every field the kind
\* contributes has the value of the later fragment: the records are those
\* the list would give with only the last link and the last "Hire now"
\* image of every group in it.
C25_LastWriteWins ==
    BodyParsed =>
        {Records[i] : i \in 1..Len(Records)}
            = {ParseSearchResults(LastOfEachKind(Len(Fragments)))[i] :
                  i \in 1..Len(ParseSearchResults(LastOfEachKind(Len(Fragments))))}

\* The identifier of the fragment starts with lchs_searchresult_<digits>.
HasGroupKey(f) ==
    \E n \in 19..Len(Field(f, "ID")) :
        IsKeyOf(SubSeq(Field(f, "ID"), 1, n), Field(f, "ID"))

\* The fragment list without the fragments that have no group key.
WithoutChrome == SelectSeq(Fragments, HasGroupKey)

\* C27: the fragments whose identifier does not start with
\* lchs_searchresult_<digits> are ignored: the records of a list are those
\* of the list with these fragments taken out, so putting such fragments
\* in or taking them out, anywhere, changes nothing.
C27_ChromeIgnored ==
    BodyParsed => Records = ParseSearchResults(WithoutChrome)

\* Two different fragments without group key stand around a link, one of
\* them a link with a name of its own, and one record is returned.
C27_Witness ==
    /\ BodyParsed
    /\ Len(Fragments) = 3
    /\ ~HasGroupKey(Fragments[1])
    /\ HasGroupKey(Fragments[2])
    /\ ~HasGroupKey(Fragments[3])
    /\ Fragments[1] # Fragments[3]
    /\ Field(Fragments[3], "Type") = "Node.Link"
    /\ Len(Records) = 1

\* C28: the terminal name of a record comes from the "Hire now" images of
\* its group only: a record has a non-empty terminal name only if its group
\* has such an image with that Terminal tag, and nothing a link carries,
\* a Terminal tag of its own included, sets it.
C28_TerminalFromImageOnly ==
    BodyParsed =>
        \A i \in 1..Len(Records) :
            Present(Records[i].terminal_name) =>
                \E k \in EmittedKeys :
                    /\ GroupName(k) = Records[i].name
                    /\ ImagesOf(k) # {}
                    /\ Tag(Fragments[LastImage(k)], "Terminal") = Records[i].terminal_name

\* The link of the record carries a Terminal tag, its group has no
\* "Hire now" image, and the record has no terminal name; a second record
\* has the terminal name of its image.
C28_Witness ==
    /\ BodyParsed
    /\ Len(Records) = 2
    /\ \E k \in EmittedKeys :
          /\ ImagesOf(k) = {}
          /\ Present(Tag(Fragments[LastLink(k)], "Terminal"))
          /\ Records[1].name = GroupName(k)
    /\ Records[1].terminal_name = None
    /\ Present(Records[2].terminal_name)

(* --------------- claims about the steps of the aggregation ------------- *)

\* The accumulator fields a link writes, and those a "Hire now" image
\* writes.
LinkFields == {"name", "subtitle", "dock_location", "station_id_from_link_tags"}

ImageFields ==
    {"terminal_name_from_image_tags", "point_name_from_image_tags",
     "station_id_from_image_tags"}

\* Field f of the entry of group k in the accumulator agg: <<value>>, or
\* <<>> when the entry or the field is not there.
EntryField(agg, k, f) ==
    IF k \in DOMAIN agg.entries /\ f \in DOMAIN agg.entries[k]
    THEN <<agg.entries[k][f]>>
    ELSE <<>>

\* C26: the pass over a link leaves the fields the images contribute
\* (terminal name, point name, station id of the image) as they were, and
\* the pass over a "Hire now" image leaves the fields the links contribute
\* (name, subtitle, dock location, station id of the link) as they were,
\* in every group.
C26_KindsKeepApart ==
    [][scanned' = scanned + 1 =>
          \A k \in DOMAIN station_data_aggregator'.entries :
              /\ Field(Fragments[scanned + 1], "Type") = "Node.Link" =>
                    \A f \in ImageFields :
                        EntryField(station_data_aggregator', k, f)
                            = EntryField(station_data_aggregator, k, f)
              /\ Field(Fragments[scanned + 1], "Type") = "Node.Media.Image" =>
                    \A f \in LinkFields :
                        EntryField(station_data_aggregator', k, f)
                            = EntryField(station_data_aggregator, k, f)]_vars

\* A link that carries a Terminal tag of its own has just been passed,
\* after a "Hire now" image of its group, whose terminal name is still in
\* the entry.
C26_Witness ==
    /\ scanned = 2
    /\ outcome = NoOutcome
    /\ Field(Fragments[1], "Type") = "Node.Media.Image"
    /\ Field(Fragments[2], "Type") = "Node.Link"
    /\ Present(Tag(Fragments[2], "Terminal"))
    /\ \E k \in DOMAIN station_data_aggregator.entries :
          /\ IsKeyOf(k, Field(Fragments[2], "ID"))
          /\ EntryField(station_data_aggregator, k, "terminal_name_from_image_tags")
                 = <<Tag(Fragments[1], "Terminal")>>
          /\ EntryField(station_data_aggregator, k, "name") = <<Fragments[2].Name>>

(* ---------------------- claims about the token cache ------------------- *)

\* C29: clear_active_tokens leaves the cache empty, whatever it held
\* (active_token_info then reports no encoding, no clientTime and no
\* source), and a second call right after the first changes nothing.
C29_ClearIdempotent ==
    [][op' = "clear" =>
          /\ active_c3_encoding' = None
          /\ active_original_c3_clienttime' = None
          /\ active_token_source_info' = None
          /\ op = "clear" => cache_vars' = cache_vars]_vars

\* clear_active_tokens was called on a cache that held tokens.
C29_Witness ==
    /\ op = "clear"
    /\ Truthy(entry_cache.c3_encoding)
    /\ Truthy(entry_cache.original_c3_clienttime)
    /\ active_token_info = EmptyCache

\* clear_active_tokens was called on an empty cache, as a second call in a
\* row is.
C29_WitnessAgain ==
    /\ op = "clear"
    /\ clock > 0
    /\ entry_cache = EmptyCache
    /\ active_token_info = EmptyCache

\* C30: prime_tokens_from_static_location returns true exactly when its
\* key is in the table and the entry has both c3_encoding and
\* c3_clienttime; the cache then holds that pair with the label
\* static_example_for_<key>; when it returns false the cache is as it was.
C30_PrimeReturnsAndSets ==
    op = "prime" =>
        /\ result.status = "returned"
        /\ result.value =
              (/\ args.location_key \in DOMAIN static_location_data
               /\ "c3_encoding" \in DOMAIN static_location_data[args.location_key]
               /\ "c3_clienttime" \in DOMAIN static_location_data[args.location_key])
        /\ result.value =>
              active_token_info =
                  [c3_encoding |-> static_location_data[args.location_key].c3_encoding,
                   original_c3_clienttime |->
                       static_location_data[args.location_key].c3_clienttime,
                   source |-> "static_example_for_" \o args.location_key]
        /\ ~result.value => active_token_info = entry_cache

\* The key is in the table, its entry has no tokens, and the cache held
\* tokens, which are still there.
C30_Witness ==
    /\ op = "prime"
    /\ args.location_key \in DOMAIN static_location_data
    /\ result.value = FALSE
    /\ Truthy(entry_cache.c3_encoding)
    /\ active_token_info = entry_cache

\* The priming replaced tokens the cache held.
C30_WitnessPrimed ==
    /\ op = "prime"
    /\ result.value = TRUE
    /\ Truthy(entry_cache.c3_encoding)
    /\ active_token_info # entry_cache

\* A remote call ended on a transport-level failure: the request failed,
\* the status was not a success, or the body could not be decoded.
TransportFailed == CallDone /\ response.kind # "json"

\* C31: every transport-level failure of a remote call (network error,
\* non-success HTTP status, malformed response body) is surfaced as one
\* single error kind, which is not the DataError kind and not a successful
\* response: whatever transport failure the same call had met instead, the
\* error would be of the kind it is now.
C31_SingleTransportKind ==
    TransportFailed =>
        /\ ~outcome.ok
        /\ outcome.error.type # "TflCycleHireDataError"
        /\ \A r \in {x \in ConfirmInputs : x.kind # "json"} :
              ExecuteConfirmHire(r, clock).error.type = outcome.error.type

\* An invocation of one of the four methods that make remote calls has
\* ended in failure.
EndedInFailure ==
    /\ op \in {"explicit", "static", "search", "searched"}
    /\ pc = "idle"
    /\ result.status = "raised"

\* The invocation is a search_stations that primed the cache: it had a
\* hint naming a location with example tokens, found no active encoding,
\* and was not ended by its override.
PrimedOnTheWay ==
    /\ op = "search"
    /\ ~Truthy(entry_cache.c3_encoding)
    /\ HintPrimeable
    /\ ~(Truthy(args.c3_encoding_override) /\ Truthy(args.c3_clienttime_override))

\* C32 as stated: an invocation of search_stations,
\* get_release_code_for_static_location,
\* get_release_code_for_searched_station or
\* get_release_code_with_explicit_tokens that ends in failure leaves the
\* cache (encoding, clientTime, source label) as it was when the
\* invocation started.
C32_FailureLeavesCache ==
    EndedInFailure => active_token_info = entry_cache

\* C32: an invocation of one of the four methods that ends in failure
\* leaves the cache as it was when the invocation started, except that a
\* search_stations which primed the cache on its way leaves the example
\* pair of the hinted location, labelled static_example_for_<hint>.
C32_FailureLeavesCacheButPriming ==
    EndedInFailure =>
        IF PrimedOnTheWay
        THEN active_token_info =
                 [c3_encoding |-> HintedExample.c3_encoding,
                  original_c3_clienttime |-> HintedExample.c3_clienttime,
                  source |-> "static_example_for_"
                                 \o args.prime_from_static_if_no_active]
        ELSE active_token_info = entry_cache

\* A known-location invocation on a populated cache failed at all three
\* of its attempts and the cache is as it was.
C32_Witness ==
    /\ EndedInFailure
    /\ op = "static"
    /\ NumAttempts = 3
    /\ Truthy(entry_cache.c3_encoding)
    /\ active_token_info = entry_cache

\* A search primed the cache and then failed at both attempts.
C32_WitnessPrimed ==
    /\ EndedInFailure
    /\ PrimedOnTheWay
    /\ NumAttempts = 2
    /\ active_token_info # entry_cache

\* The cache is completely empty or completely populated.
CacheAllOrNothing ==
    \/ /\ Truthy(active_c3_encoding)
       /\ Truthy(active_original_c3_clienttime)
       /\ Truthy(active_token_source_info)
    \/ /\ ~Truthy(active_c3_encoding)
       /\ ~Truthy(active_original_c3_clienttime)
       /\ ~Truthy(active_token_source_info)

\* The step is a set_active_tokens one of whose arguments is empty.
SetWithEmptyArgument ==
    /\ op' = "set"
    /\ ~( /\ Truthy(active_c3_encoding')
          /\ Truthy(active_original_c3_clienttime')
          /\ Truthy(active_token_source_info') )

\* The step belongs to a get_release_code_with_explicit_tokens one of
\* whose tokens is empty.
ExplicitWithEmptyToken ==
    /\ op' = "explicit"
    /\ ~(Truthy(args'.c3_encoding) /\ Truthy(args'.c3_clienttime))

\* C33 as stated: starting from the empty cache of a new client, every
\* step of a public operation other than a set_active_tokens with an empty
\* argument takes a cache that is completely empty or completely populated
\* to one that is: encoding, clientTime and source label are all absent or
\* all present after any sequence of such operations.
C33_AllOrNothing ==
    [][CacheAllOrNothing /\ ~SetWithEmptyArgument => CacheAllOrNothing']_vars

\* C33: the same, the explicit tokens of
\* get_release_code_with_explicit_tokens being non-empty as well.
C33_AllOrNothingNonEmptyTokens ==
    [][CacheAllOrNothing /\ ~SetWithEmptyArgument /\ ~ExplicitWithEmptyToken
          => CacheAllOrNothing']_vars

\* A call with non-empty explicit tokens succeeded on an empty cache,
\* which it populated.
C33_Witness ==
    /\ op = "explicit"
    /\ result.status = "returned"
    /\ entry_cache = EmptyCache
    /\ Truthy(active_c3_encoding)
    /\ Truthy(active_original_c3_clienttime)
    /\ Truthy(active_token_source_info)

\* A fresh-time success replaced the clientTime and the label of a
\* populated cache.
C33_WitnessFresh ==
    /\ EngineOp
    /\ result.status = "returned"
    /\ Truthy(entry_cache.c3_encoding)
    /\ active_token_info # entry_cache
    /\ CacheAllOrNothing

\* C34: within one invocation of get_release_code_for_static_location no
\* (encoding, clientTime) pair is sent to the remote operation more than
\* once, also when the cache was primed from the location the call is for.
C34_NoPairSentTwice ==
    op = "static" =>
        \A i, j \in 1..NumAttempts :
            i # j =>
                <<attempts[i].c3_encoding, attempts[i].c3_clienttime>>
                    # <<attempts[j].c3_encoding, attempts[j].c3_clienttime>>

\* The invocation was given both halves of an override pair.
OverridePairSupplied ==
    Truthy(args.c3_encoding_override) /\ Truthy(args.c3_clienttime_override)

\* The bounds of C35 on the remote attempts of the invocation on record,
\* with "exactly one" for every invocation given an override pair.
AttemptBoundsAsStated ==
    /\ op = "static" => NumAttempts <= 3
    /\ op \in {"search", "searched"} => NumAttempts <= 2
    /\ op \in {"search", "searched"} /\ OverridePairSupplied =>
          /\ NumAttempts <= 1
          /\ Ended => NumAttempts = 1
    /\ EngineOp /\ pc = "idle" => result.status \in {"returned", "raised"}

\* The same bounds, "exactly one" being for the invocations given an
\* override pair whose station record has a terminal name.
AttemptBounds ==
    /\ op = "static" => NumAttempts <= 3
    /\ op \in {"search", "searched"} => NumAttempts <= 2
    /\ op \in {"search", "searched"} /\ OverridePairSupplied =>
          /\ NumAttempts <= 1
          /\ Ended =>
                NumAttempts =
                    IF op = "searched" /\ ~Truthy(args.station_info.terminal_name)
                    THEN 0 ELSE 1
    /\ EngineOp /\ pc = "idle" => result.status \in {"returned", "raised"}

\* An engine invocation is under way.
EngineRunning == EngineOp /\ pc # "idle"

\* C35 as stated: every engine invocation terminates after a bounded
\* number of remote attempts, at most three for
\* get_release_code_for_static_location, at most two for search_stations
\* and get_release_code_for_searched_station, and exactly one when an
\* override pair is supplied, ending in a returned result or a raised
\* failure.
C35_BoundedAttempts ==
    /\ []AttemptBoundsAsStated
    /\ EngineRunning ~> (EngineOp /\ Ended)

\* C35: the same, an invocation of get_release_code_for_searched_station
\* whose record has no terminal name making no attempt at all, override
\* pair or not.
C35_BoundedAttemptsValidated ==
    /\ []AttemptBounds
    /\ EngineRunning ~> (EngineOp /\ Ended)

\* A known-location invocation ended after three attempts.
C35_Witness ==
    /\ op = "static"
    /\ Ended
    /\ NumAttempts = 3

\* An invocation with an override pair ended on its one attempt, the
\* cache strategies being enabled on a populated cache.
C35_WitnessOverride ==
    /\ op = "searched"
    /\ Ended
    /\ OverridePairSupplied
    /\ NumAttempts = 1
    /\ args.try_active_original_time
    /\ Truthy(entry_cache.c3_encoding)

\* A search without override ended after two attempts.
C35_WitnessSearch ==
    /\ op = "search"
    /\ Ended
    /\ NumAttempts = 2

\* The invocation after the step is a search_stations or a
\* get_release_code_for_searched_station given one half of an override
\* pair only.
HalfOverrideNext ==
    /\ op' \in {"search", "searched"}
    /\ Truthy(args'.c3_encoding_override) # Truthy(args'.c3_clienttime_override)

\* C36: in search_stations and get_release_code_for_searched_station with
\* only one of the override encoding and the override clientTime supplied,
\* no attempt is an override attempt, the override step changes nothing
\* and hands over to what follows it when no override is supplied (the
\* priming of search_stations, the original-time strategy of the other),
\* and a failed attempt never ends the invocation on the spot.
C36_HalfOverrideIgnored ==
    [][HalfOverrideNext =>
          /\ \A i \in 1..Len(attempts') : attempts'[i].strategy # "override"
          /\ pc = "override" =>
                /\ pc' = IF op = "search" THEN "prime" ELSE "original"
                /\ UNCHANGED <<cache_vars, attempts, last_error, result, clock>>
          /\ ( /\ Len(attempts') > Len(attempts)
               /\ ~attempts'[Len(attempts')].ok ) => pc' # "idle"]_vars

\* With the encoding half only, the original-time attempt failed and the
\* fresh-time attempt was made.
C36_Witness ==
    /\ op = "searched"
    /\ Truthy(args.c3_encoding_override)
    /\ ~Truthy(args.c3_clienttime_override)
    /\ NumAttempts = 2
    /\ ~attempts[1].ok
    /\ attempts[1].strategy = "original"
    /\ attempts[2].strategy = "fresh"

\* With the clientTime half only, a search went past its override step.
C36_WitnessTimeOnly ==
    /\ op = "search"
    /\ ~Truthy(args.c3_encoding_override)
    /\ Truthy(args.c3_clienttime_override)
    /\ pc = "prime"

\* The step is a remote attempt of search_stations whose response
\* aggregated to no station record.
EmptySearchAttempt ==
    /\ op = "search"
    /\ Len(attempts') = Len(attempts) + 1
    /\ attempts'[Len(attempts')].ok
    /\ attempts'[Len(attempts')].value = <<>>

\* C37: in search_stations a remote attempt whose response aggregates to
\* zero station records is a success: the invocation ends there and
\* returns the empty list, and the cache is what a success of that
\* strategy leaves, the override pair or the active encoding with the
\* fresh time under the strategy's label, or the cache as it was for the
\* original-time strategy.
C37_EmptyResultIsSuccess ==
    [][EmptySearchAttempt =>
          /\ pc' = "idle"
          /\ result' = [status |-> "returned", value |-> <<>>,
                        exc_type |-> "None", cause |-> NoError]
          /\ attempts'[Len(attempts')].strategy = "override" =>
                active_token_info' =
                    [c3_encoding |-> args.c3_encoding_override,
                     original_c3_clienttime |-> args.c3_clienttime_override,
                     source |-> "explicit_override_for_search_" \o args.search_text]
          /\ attempts'[Len(attempts')].strategy = "original" =>
                active_token_info' = active_token_info
          /\ attempts'[Len(attempts')].strategy = "fresh" =>
                active_token_info' =
                    [c3_encoding |-> active_c3_encoding,
                     original_c3_clienttime |-> attempts'[Len(attempts')].c3_clienttime,
                     source |-> "active_encoding_fresh_time_for_search_"
                                    \o args.search_text]]_vars

\* The fresh-time attempt of a search, made after a failed original-time
\* attempt, found no station: the empty list was returned and the cache
\* took the fresh time.
C37_Witness ==
    /\ op = "search"
    /\ Ended
    /\ NumAttempts = 2
    /\ attempts[2].strategy = "fresh"
    /\ attempts[2].ok
    /\ result.status = "returned"
    /\ result.value = <<>>
    /\ active_original_c3_clienttime = attempts[2].c3_clienttime
    /\ active_token_info # entry_cache

\* The original-time attempt found no station, the fresh-time strategy
\* being enabled.
C37_WitnessOriginal ==
    /\ op = "search"
    /\ Ended
    /\ NumAttempts = 1
    /\ attempts[1].strategy = "original"
    /\ attempts[1].ok
    /\ result.status = "returned"
    /\ result.value = <<>>
    /\ args.try_active_fresh_time

\* The groups none of whose fragments carries a station-id tag or a
\* PointName tag.
UntaggedKeys ==
    {k \in GroupKeys :
        /\ ImageStationIds(k) = {}
        /\ LinkStationIds(k) = {}
        /\ \A g \in ImagesOf(k) : ~Present(Tag(Fragments[g], "PointName"))}

\* C38: the aggregation emits a record for a group if and only if the name
\* its last link leaves is non-empty: the records are as many as the
\* groups with such a name and carry their names, and a group without any
\* station-id or PointName tag still gives its record, with the number of
\* its key as station_id and its name as point_name.
C38_EmittedIffNamed ==
    BodyParsed =>
        /\ Len(Records) = Cardinality(EmittedKeys)
        /\ {Records[i].name : i \in 1..Len(Records)}
               = {GroupName(k) : k \in EmittedKeys}
        /\ \A k \in EmittedKeys \cap UntaggedKeys :
              \E i \in 1..Len(Records) :
                  /\ Records[i].name = GroupName(k)
                  /\ Records[i].station_id = SubSeq(k, 19, Len(k))
                  /\ Records[i].point_name = GroupName(k)

\* Of two groups, the one with a named link and no tag at all gave the
\* one record; the other, with a "Hire now" image and a link whose name is
\* empty, gave none.
C38_Witness ==
    /\ BodyParsed
    /\ Len(Fragments) = 3
    /\ Cardinality(GroupKeys) = 2
    /\ Cardinality(EmittedKeys \cap UntaggedKeys) = 1
    /\ \E k \in GroupKeys \ EmittedKeys : LinksOf(k) # {} /\ ImagesOf(k) # {}
    /\ Len(Records) = 1

\* The first fragment with the exact caption and a subtitle carries an
\* empty subtitle.
FirstCaptionEmpty ==
    \E i \in 1..Len(Fragments) : FirstCaptionAt(i) /\ Fragments[i].Subtitle = ""

\* C39: the release-code extraction never returns an empty code; when the
\* first fragment with the exact caption carries an empty subtitle, that
\* subtitle is not returned: the call returns the code of the first unlock
\* bar with a matching label, and fails with TflCycleHireDataError when
\* there is no such unlock bar, later caption fragments notwithstanding.
C39_NeverEmptyCode ==
    BodyParsed =>
        /\ outcome.ok => outcome.value \notin {"", None}
        /\ FirstCaptionEmpty =>
              /\ \A i \in 1..Len(Fragments) :
                    FirstUnlockAt(i) =>
                        /\ outcome.ok
                        /\ IsCapture(Fragments[i].Name, outcome.value)
              /\ (\A i \in 1..Len(Fragments) : ~IsUnlockFragment(Fragments[i])) =>
                    /\ ~outcome.ok
                    /\ outcome.error.type = "TflCycleHireDataError"

\* A caption fragment with an empty subtitle, then one with a code, and
\* no unlock bar: no code was found.
C39_Witness ==
    /\ BodyParsed
    /\ Len(Fragments) = 2
    /\ FirstCaptionAt(1)
    /\ Fragments[1].Subtitle = ""
    /\ IsCaptionFragment(Fragments[2])
    /\ Fragments[2].Subtitle # ""
    /\ ~outcome.ok
    /\ outcome.error.type = "TflCycleHireDataError"

\* An unlock bar stands before the caption fragment with the empty
\* subtitle, and its code was returned.
C39_WitnessUnlock ==
    /\ BodyParsed
    /\ Len(Fragments) = 2
    /\ FirstUnlockAt(1)
    /\ FirstCaptionAt(2)
    /\ Fragments[2].Subtitle = ""
    /\ outcome.ok
    /\ outcome.value = "9013"

\* C40: starting from an empty favorites list, after any sequence of
\* add_to_favorites and remove_from_favorites calls no two entries of the
\* list have the same station_id, every entry has a non-empty
\* terminal_name, and right after remove_from_favorites of an id no entry
\* has that id.
C40_FavoritesDistinctAndHirable ==
    /\ \A i, j \in 1..Len(favorites) :
          i # j => favorites[i].station_id # favorites[j].station_id
    /\ \A i \in 1..Len(favorites) : favorites[i].terminal_name \notin {"", None}
    /\ called.name = "remove_from_favorites" =>
          \A i \in 1..Len(favorites) : favorites[i].station_id # called.station_id

\* Station 7 was added first, two more after it, and add_to_favorites was
\* then called for station 7 again: the list still has three entries.
C40_Witness ==
    /\ called = [name |-> "add_to_favorites", station_id |-> "7"]
    /\ Len(favorites) = 3
    /\ favorites[1].station_id = "7"

\* add_to_favorites was called last for the station with the empty
\* terminal name, which is not in the list.
C40_WitnessNotHirable ==
    /\ called = [name |-> "add_to_favorites", station_id |-> "21"]
    /\ Len(favorites) = 2

\* remove_from_favorites took the middle one of three entries out.
C40_WitnessRemoved ==
    /\ called = [name |-> "remove_from_favorites", station_id |-> "9"]
    /\ Len(favorites) = 2
    /\ favorites[1].station_id = "14"
    /\ favorites[2].station_id = "7"
    /\ favorites_file.exists
    /\ Len(favorites_file.content) = 3

============================================================================
